---- MODULE Spec2Model ----
(***************************************************************************)
(* Order lifecycle and triple ledger (Global / Group / Daily) of the loan  *)
(* bot: src/main.py (handlers), src/db_operations.py (tables and their     *)
(* read-then-write updates), src/init_db.py (schema and initial rows).     *)
(*                                                                         *)
(* Conventions.                                                            *)
(*  - A table is the sequence of its rows in rowid order.  The single row  *)
(*    of financial_data is the record financial_data; grouped_data, whose  *)
(*    group_id column is UNIQUE, is a function from the existing group ids *)
(*    to their rows.                                                       *)
(*  - `await db_operations.f(...)` in main.py is the call of f as          *)
(*    db_operations.py defines it.                                         *)
(*  - Python's None is the empty sequence <<>>, a present value v is <<v>>.*)
(*  - A chat title or a message text is the sequence of its characters;    *)
(*    the two emoji marks are the one-element tokens "CROSS" and "BANG".   *)
(*  - Amounts are integers (the floats the program handles here are        *)
(*    integral); a period date is the number of its day.                   *)
(*  - Under Spec every handler runs to completion before the next update   *)
(*    is taken (Application.builder().token(token).build(), main.py:2405,  *)
(*    processes updates one at a time).                                    *)
(*  - SpecConcurrent lets two /end handlers give way to each other at      *)
(*    their awaits; SpecDecode applies parse_order_from_title to codes.    *)
(***************************************************************************)
EXTENDS Integers, Sequences, FiniteSets, TLC

\* ------------------------------------------------------------------ bounds
MaxSteps == 4
MaxDay == 1

\* --------------------------------------------------------- program constants
InitialLiquidFunds == 100000
ThresholdDate == <<2025, 11, 25>>
DEFAULT_GROUP == "S01"
NULL == "NULL"

FinColumns ==
  {"valid_orders", "valid_amount", "liquid_funds", "new_clients",
   "new_clients_amount", "old_clients", "old_clients_amount", "interest",
   "completed_orders", "completed_amount", "breach_orders", "breach_amount",
   "breach_end_orders", "breach_end_amount"}

DailyColumns ==
  {"new_clients", "new_clients_amount", "old_clients", "old_clients_amount",
   "interest", "completed_orders", "completed_amount", "breach_orders",
   "breach_amount", "breach_end_orders", "breach_end_amount"}

ZeroFin == [f \in FinColumns |-> 0]

ZeroDaily(date, gkey) ==
  [f \in DailyColumns \cup {"date", "group_id"} |->
     IF f = "date" THEN date ELSE IF f = "group_id" THEN gkey ELSE 0]

WEEKDAY_GROUP == <<"mon", "tue", "wed", "thu", "fri", "sat", "sun">>

\* ------------------------------------------------------------ input domains
Chats == {1, 2}
Users == {"u1"}
AttributionIds == {"S02"}

D1 == <<"2", "5", "1", "1", "2", "6", "0", "1", "0", "5">>
DH == <<"2", "4", "0", "1", "1", "5", "0", "1", "0", "8">>

\* two orders of 99000 dated after the threshold, for the concurrent creations
DBig == <<"2", "5", "1", "1", "2", "6", "0", "1", "9", "9">>
BigTitles == {DBig, <<"A">> \o DBig}

Titles ==
  {D1, D1 \o <<"CROSS">>, D1 \o <<"BANG">>, <<"A">> \o D1,
   DH, DH \o <<"CROSS">>, <<"V", "I", "P">>, SubSeq(D1, 1, 9), <<"B">> \o D1}

\* the titles chat c is given
TitlesOf(c) == IF c = 1 THEN Titles ELSE {D1, <<"A">> \o D1}

QuickTexts ==
  {<<"+", "2", "0", "0", "0", "b">>, <<"+", "3", "0", "0", "0", "b">>,
   <<"+", "0", "b">>, <<"+", "-", "2", "0", "0", "0", "b">>,
   <<"+", "1", "0", "0">>, <<"+", "-", "1", "0", "0">>, <<"+">>}

PlainTexts ==
  {<<"c", "a", "n", "c", "e", "l">>, <<"5", "0", "0", "0">>,
   <<"9", "0", "0", "0">>, <<"0">>, <<"a", "b", "c">>}

\* context.args of /breach_end and of /adjust
BreachEndArgs == {<<>>, <<<<"3", "0", "0", "0">>>>, <<<<"0">>>>}

AdjustArgs == {<<<<"-", "9", "5", "0", "0", "0">>>>, <<<<"+", "0">>>>, <<<<"5">>>>}

ChatTypes == {"group", "private"}

\* ------------------------------------------------------------ text helpers
DigitChars == <<"0", "1", "2", "3", "4", "5", "6", "7", "8", "9">>
Digits == {DigitChars[i] : i \in 1..10}
DigitVal(c) == (CHOOSE i \in 1..10 : DigitChars[i] = c) - 1

RECURSIVE DecVal(_)
DecVal(s) ==
  IF s = <<>> THEN 0 ELSE 10 * DecVal(SubSeq(s, 1, Len(s) - 1)) + DigitVal(s[Len(s)])

AllDigits(s) == \A i \in 1..Len(s) : s[i] \in Digits

\* float(s) on the texts of the input domains: an optional sign and a
\* non-empty run of digits give the number, anything else is a ValueError (<<>>)
Float(s) ==
  IF s # <<>> /\ s[1] \in {"+", "-"}
  THEN LET body == SubSeq(s, 2, Len(s)) IN
       IF body # <<>> /\ AllDigits(body)
       THEN <<(IF s[1] = "-" THEN 0 - DecVal(body) ELSE DecVal(body))>>
       ELSE <<>>
  ELSE IF s # <<>> /\ AllDigits(s) THEN <<DecVal(s)>> ELSE <<>>

Contains(s, c) == \E i \in 1..Len(s) : s[i] = c

SetMin(S) == CHOOSE x \in S : \A y \in S : x <= y

\* ----------------------------------------------------------------- calendar
IsLeap(y) == (y % 4 = 0 /\ y % 100 # 0) \/ y % 400 = 0

DaysInMonth(y, m) ==
  IF m = 2 THEN (IF IsLeap(y) THEN 29 ELSE 28)
  ELSE IF m \in {4, 6, 9, 11} THEN 30 ELSE 31

DateBefore(a, b) ==
  \/ a[1] < b[1]
  \/ a[1] = b[1] /\ a[2] < b[2]
  \/ a[1] = b[1] /\ a[2] = b[2] /\ a[3] < b[3]

\* strptime that checks the month and a day of 1..31 but not the calendar
strptime_no_calendar(date_part) ==
  LET y == 2000 + DecVal(SubSeq(date_part, 1, 2))
      m == DecVal(SubSeq(date_part, 3, 4))
      d == DecVal(SubSeq(date_part, 5, 6))
  IN IF m \in 1..12 /\ d \in 1..31 THEN <<<<y, m, d>>>> ELSE <<>>

\* datetime.strptime("20" + YYMMDD, "%Y%m%d").date(): <<>> stands for ValueError
strptime(date_part) ==
  LET y == 2000 + DecVal(SubSeq(date_part, 1, 2))
      m == DecVal(SubSeq(date_part, 3, 4))
      d == DecVal(SubSeq(date_part, 5, 6))
  IN IF m \in 1..12 /\ d >= 1 /\ d <= DaysInMonth(y, m) THEN <<<<y, m, d>>>> ELSE <<>>

\* get_state_from_title reading the mark of an overdue order as a closed one
get_state_from_title_closing(title) ==
  IF Contains(title, "CROSS") THEN "breach"
  ELSE IF Contains(title, "BANG") THEN "end"
  ELSE "normal"

\* --------------------------------------------------------- main.py: titles
\* get_state_from_title: the cross mark wins over the exclamation mark
get_state_from_title(title) ==
  IF Contains(title, "CROSS") THEN "breach"
  ELSE IF Contains(title, "BANG") THEN "overdue"
  ELSE "normal"

\* the pattern of the new customer with any character in the marker's place
match_new_any_marker(title) ==
  Len(title) >= 11 /\ title[1] \notin Digits /\ AllDigits(SubSeq(title, 2, 11))

\* re.search(r'^A(\d{10})', title) / re.search(r'^(\d{10})', title)
match_new(title) ==
  Len(title) >= 11 /\ title[1] = "A" /\ AllDigits(SubSeq(title, 2, 11))

match_old(title) == Len(title) >= 10 /\ AllDigits(SubSeq(title, 1, 10))

\* parse_order_from_title keeping the ten digits alone as the order id
parse_order_from_title_digits_id(title) ==
  LET customer == IF match_new(title) THEN "A" ELSE "B"
      raw_digits == IF match_new(title) THEN <<SubSeq(title, 2, 11)>>
                    ELSE IF match_old(title) THEN <<SubSeq(title, 1, 10)>>
                    ELSE <<>>
      order_id == IF match_new(title) THEN SubSeq(title, 2, 11)
                  ELSE SubSeq(title, 1, 10)
  IN IF raw_digits = <<>> THEN <<>>
     ELSE LET date_part == SubSeq(raw_digits[1], 1, 6)
              amount_part == SubSeq(raw_digits[1], 9, 10)
              order_date_obj == strptime(date_part)
          IN IF order_date_obj = <<>> THEN <<>>
             ELSE <<[date |-> order_date_obj[1],
                     amount |-> DecVal(amount_part) * 1000,
                     order_id |-> order_id,
                     customer |-> customer]>>

\* parse_order_from_title: <<>> for None, else <<the dict>>
parse_order_from_title(title) ==
  LET customer == IF match_new(title) THEN "A" ELSE "B"
      raw_digits == IF match_new(title) THEN <<SubSeq(title, 2, 11)>>
                    ELSE IF match_old(title) THEN <<SubSeq(title, 1, 10)>>
                    ELSE <<>>
      order_id == IF match_new(title) THEN SubSeq(title, 1, 11)
                  ELSE SubSeq(title, 1, 10)
  IN IF raw_digits = <<>> THEN <<>>
     ELSE LET date_part == SubSeq(raw_digits[1], 1, 6)
              amount_part == SubSeq(raw_digits[1], 9, 10)
              order_date_obj == strptime(date_part)
          IN IF order_date_obj = <<>> THEN <<>>
             ELSE <<[date |-> order_date_obj[1],
                     amount |-> DecVal(amount_part) * 1000,
                     order_id |-> order_id,
                     customer |-> customer]>>

\* parsed_info = parse_order_from_title(title) (main.py:453), worked out once
\* for each title that is sent
ParsedInfo == [title \in Titles \cup BigTitles |-> parse_order_from_title(title)]

\* ------------------------------------------------- db_operations.py: orders
IsActiveRow(row, chat_id) ==
  row.chat_id = chat_id /\ row.state \notin {"end", "breach_end"}

\* an INSERT that no UNIQUE constraint stops
create_order_ok_always(tbl, order_data) == TRUE

\* INSERT INTO orders; order_id is UNIQUE (init_db.py:21): FALSE on a duplicate
create_order_ok(tbl, order_data) ==
  ~ \E i \in 1..Len(tbl) : tbl[i].order_id = order_data.order_id

create_order(tbl, order_data) ==
  IF create_order_ok(tbl, order_data)
  THEN Append(tbl, [order_id |-> order_data.order_id,
                    group_id |-> order_data.group_id,
                    chat_id |-> order_data.chat_id,
                    date |-> order_data.date,
                    weekday_group |-> order_data.group,
                    customer |-> order_data.customer,
                    amount |-> order_data.amount,
                    state |-> order_data.state])
  ELSE tbl

\* get_order_by_chat_id whose query looks for state = 'normal' only
get_order_by_chat_id_normal_only(tbl, chat_id) ==
  LET hits == {i \in 1..Len(tbl) : tbl[i].chat_id = chat_id /\ tbl[i].state = "normal"}
  IN IF hits = {} THEN <<>> ELSE <<tbl[SetMin(hits)]>>

\* SELECT ... WHERE chat_id = ? AND state NOT IN ('end','breach_end'); fetchone
get_order_by_chat_id(tbl, chat_id) ==
  LET hits == {i \in 1..Len(tbl) : IsActiveRow(tbl[i], chat_id)}
  IN IF hits = {} THEN <<>> ELSE <<tbl[SetMin(hits)]>>

\* delete_order_by_chat_id deletes nothing and returns True: the order stays
\* in the table with its terminal state
delete_order_by_chat_id(tbl, chat_id) == tbl

\* update_order_amount whose UPDATE writes nothing
update_order_amount_stale(tbl, chat_id, new_amount) == tbl

\* UPDATE orders SET amount = ? WHERE chat_id = ? AND state NOT IN (...)
update_order_amount(tbl, chat_id, new_amount) ==
  [i \in 1..Len(tbl) |->
     IF IsActiveRow(tbl[i], chat_id) THEN [tbl[i] EXCEPT !.amount = new_amount]
     ELSE tbl[i]]

\* update_order_state whose WHERE clause has lost the state filter
update_order_state_all_rows(tbl, chat_id, new_state) ==
  [i \in 1..Len(tbl) |->
     IF tbl[i].chat_id = chat_id THEN [tbl[i] EXCEPT !.state = new_state]
     ELSE tbl[i]]

\* UPDATE orders SET state = ? WHERE chat_id = ? AND state NOT IN (...)
update_order_state(tbl, chat_id, new_state) ==
  [i \in 1..Len(tbl) |->
     IF IsActiveRow(tbl[i], chat_id) THEN [tbl[i] EXCEPT !.state = new_state]
     ELSE tbl[i]]

\* an update that reports success whatever it matched
update_order_rowcount_always(tbl, chat_id) == TRUE

\* cursor.rowcount > 0 of the two updates above
update_order_rowcount(tbl, chat_id) ==
  \E i \in 1..Len(tbl) : IsActiveRow(tbl[i], chat_id)

\* ------------------------------------------------ db_operations.py: ledgers
\* update_financial_data that writes the delta over the column instead of
\* adding it to the value read
update_financial_data_overwrite(fd, field, amount) ==
  IF field \in FinColumns THEN [fd EXCEPT ![field] = amount] ELSE fd

\* update_financial_data: read the row, add, write the column back; a name
\* that is no column makes the UPDATE raise and the function return False
update_financial_data(fd, field, amount) ==
  IF field \in FinColumns
  THEN LET current_value == fd[field]
       IN [fd EXCEPT ![field] = current_value + amount]
  ELSE fd

\* update_grouped_data that writes the delta over the column instead of adding
\* it to the value read
update_grouped_data_overwrite(gd, group_id, field, amount) ==
  LET gd1 == IF group_id \in DOMAIN gd THEN gd
             ELSE [g \in DOMAIN gd \cup {group_id} |->
                     IF g = group_id THEN ZeroFin ELSE gd[g]]
  IN IF field \in FinColumns THEN [gd1 EXCEPT ![group_id][field] = amount] ELSE gd1

\* update_grouped_data: select-or-insert a zero row, then write the column
update_grouped_data(gd, group_id, field, amount) ==
  LET exists == group_id \in DOMAIN gd
      gd1 == IF exists THEN gd
             ELSE [g \in DOMAIN gd \cup {group_id} |->
                     IF g = group_id THEN ZeroFin ELSE gd[g]]
      current_value == IF exists /\ field \in FinColumns THEN gd[group_id][field] ELSE 0
  IN IF field \in FinColumns
     THEN [gd1 EXCEPT ![group_id][field] = current_value + amount]
     ELSE gd1

\* update_daily_data: select-or-insert a zero row (committed), then UPDATE
\* every row of the key; a name that is no column of daily_data makes the
\* UPDATE raise after the insert was committed
update_daily_data(dd, date, field, amount, group_id) ==
  LET hits == {i \in 1..Len(dd) : dd[i].date = date /\ dd[i].group_id = group_id}
      dd1 == IF hits = {} THEN Append(dd, ZeroDaily(date, group_id)) ELSE dd
      current_value == IF hits # {} /\ field \in DailyColumns
                       THEN dd[SetMin(hits)][field] ELSE 0
      new_value == current_value + amount
  IN IF field \in DailyColumns
     THEN [i \in 1..Len(dd1) |->
             IF dd1[i].date = date /\ dd1[i].group_id = group_id
             THEN [dd1[i] EXCEPT ![field] = new_value] ELSE dd1[i]]
     ELSE dd1

\* ------------------------------------------------------- main.py: fan-out
\* get_daily_period_date: from 23:00 on the period is the next day
get_daily_period_date(clk) == IF clk.hour >= 23 THEN clk.day + 1 ELSE clk.day

\* get_current_group: date.today().weekday()
get_current_group(clk) == WEEKDAY_GROUP[(clk.day % 7) + 1]

\* field names of update_all_stats: the logical names its callers pass
LogicalFields ==
  {"valid", "breach", "completed", "breach_end", "new_clients", "old_clients",
   "interest", "liquid_funds"}

\* field + "_amount", field + "_orders" on the logical names
WithAmountSuffix(field) ==
  CASE field = "valid" -> "valid_amount"
    [] field = "breach" -> "breach_amount"
    [] field = "completed" -> "completed_amount"
    [] field = "breach_end" -> "breach_end_amount"
    [] field = "new_clients" -> "new_clients_amount"
    [] field = "old_clients" -> "old_clients_amount"
    [] field = "interest" -> "interest_amount"
    [] field = "liquid_funds" -> "liquid_funds_amount"

WithOrdersSuffix(field) ==
  CASE field = "valid" -> "valid_orders"
    [] field = "breach" -> "breach_orders"
    [] field = "completed" -> "completed_orders"
    [] field = "breach_end" -> "breach_end_orders"
    [] field = "new_clients" -> "new_clients_orders"
    [] field = "old_clients" -> "old_clients_orders"
    [] field = "interest" -> "interest_orders"
    [] field = "liquid_funds" -> "liquid_funds_orders"

\* none of the logical names ends in _amount or _orders
global_amount_field(field) ==
  IF field \in {"liquid_funds", "interest"} THEN field ELSE WithAmountSuffix(field)

global_count_field(field) ==
  IF field \in {"new_clients", "old_clients"} THEN field ELSE WithOrdersSuffix(field)

daily_amount_field(field) ==
  IF field = "interest" THEN field ELSE WithAmountSuffix(field)

daily_count_field(field) ==
  IF field \in {"new_clients", "old_clients"} THEN field ELSE WithOrdersSuffix(field)

\* update_all_stats without the allow-list: every name is routed to Daily
is_daily_field_always(field) == TRUE

\* any(field.startswith(prefix) for prefix in daily_allowed_prefixes)
is_daily_field(field) ==
  field \in {"new_clients", "old_clients", "interest", "completed", "breach",
             "breach_end"}

\* update_all_stats that drops the group_id it is given
update_all_stats_no_group(L, date, field, amount, count, group_id) ==
  LET fin1 == IF amount # 0
              THEN update_financial_data(L.fin, global_amount_field(field), amount)
              ELSE L.fin
      fin2 == IF count # 0
              THEN update_financial_data(fin1, global_count_field(field), count)
              ELSE fin1
  IN [fin |-> fin2, grp |-> L.grp, day |-> L.day, failed |-> L.failed]

\* update_all_stats on the ledger bundle L = [fin, grp, day, failed]; group_id
\* NULL is Python's None; failed: some ledger write of the command returned
\* False (the return values are dropped by every caller)
update_all_stats(L, date, field, amount, count, group_id) ==
  LET fin1 == IF amount # 0
              THEN update_financial_data(L.fin, global_amount_field(field), amount)
              ELSE L.fin
      fin2 == IF count # 0
              THEN update_financial_data(fin1, global_count_field(field), count)
              ELSE fin1
      day1 == IF is_daily_field(field) /\ amount # 0
              THEN update_daily_data(L.day, date, daily_amount_field(field), amount, NULL)
              ELSE L.day
      day2 == IF is_daily_field(field) /\ count # 0
              THEN update_daily_data(day1, date, daily_count_field(field), count, NULL)
              ELSE day1
      day3 == IF is_daily_field(field) /\ group_id # NULL /\ amount # 0
              THEN update_daily_data(day2, date, daily_amount_field(field), amount, group_id)
              ELSE day2
      day4 == IF is_daily_field(field) /\ group_id # NULL /\ count # 0
              THEN update_daily_data(day3, date, daily_count_field(field), count, group_id)
              ELSE day3
      grp1 == IF group_id # NULL /\ amount # 0
              THEN update_grouped_data(L.grp, group_id, global_amount_field(field), amount)
              ELSE L.grp
      grp2 == IF group_id # NULL /\ count # 0
              THEN update_grouped_data(grp1, group_id, global_count_field(field), count)
              ELSE grp1
      failed ==
        \/ amount # 0 /\ global_amount_field(field) \notin FinColumns
        \/ count # 0 /\ global_count_field(field) \notin FinColumns
        \/ /\ is_daily_field(field)
           /\ \/ amount # 0 /\ daily_amount_field(field) \notin DailyColumns
              \/ count # 0 /\ daily_count_field(field) \notin DailyColumns
  IN [fin |-> fin2, grp |-> grp2, day |-> day4, failed |-> L.failed \/ failed]

\* update_liquid_capital writing the Daily liquid_flow only
update_liquid_capital_flow_only(L, date, amount) ==
  [fin |-> L.fin,
   grp |-> L.grp,
   day |-> update_daily_data(L.day, date, "liquid_flow", amount, NULL),
   failed |-> L.failed \/ "liquid_flow" \notin DailyColumns]

\* update_liquid_capital: Global liquid_funds, then Daily liquid_flow
update_liquid_capital(L, date, amount) ==
  [fin |-> update_financial_data(L.fin, "liquid_funds", amount),
   grp |-> L.grp,
   day |-> update_daily_data(L.day, date, "liquid_flow", amount, NULL),
   failed |-> L.failed \/ "liquid_flow" \notin DailyColumns]

\* ------------------------------------------------------- main.py: handlers
\* A handler is an operator from the tables it reads (tbl: orders, L: the
\* three ledgers, clk: the wall clock) and its inputs to the tables it leaves
\* and `result`, the name of the exit it took (its reply, or the silent return).
Out(tbl, L, result) == [orders |-> tbl, L |-> L, result |-> result]

\* update_order_state_from_title leaving the breach count when an order returns to valid
update_order_state_from_title_keeping_count(tbl, L, clk, order, title) ==
  LET current_state == order.state
      target_state == get_state_from_title(title)
      chat_id == order.chat_id
      group_id == order.group_id
      amount == order.amount
      date == get_daily_period_date(clk)
      is_current_valid == current_state \in {"normal", "overdue"}
      is_target_valid == target_state \in {"normal", "overdue"}
      is_current_breach == current_state = "breach"
      is_target_breach == target_state = "breach"
      tbl1 == update_order_state(tbl, chat_id, target_state)
  IN IF current_state \in {"end", "breach_end"} THEN Out(tbl, L, "terminal")
     ELSE IF current_state = target_state THEN Out(tbl, L, "state_unchanged")
     ELSE IF ~ update_order_rowcount(tbl, chat_id) THEN Out(tbl, L, "db_error")
     ELSE IF is_current_valid /\ is_target_breach
     THEN Out(tbl1,
              update_all_stats(update_all_stats(L, date, "valid", 0 - amount, -1, group_id),
                               date, "breach", amount, 1, group_id),
              "moved_to_breach")
     ELSE IF is_current_breach /\ is_target_valid
     THEN Out(tbl1,
              update_all_stats(update_all_stats(L, date, "breach", 0 - amount, 0, group_id),
                               date, "valid", amount, 1, group_id),
              "moved_to_valid")
     ELSE Out(tbl1, L, "state_changed")

\* update_order_state_from_title (main.py:392)
update_order_state_from_title(tbl, L, clk, order, title) ==
  LET current_state == order.state
      target_state == get_state_from_title(title)
      chat_id == order.chat_id
      group_id == order.group_id
      amount == order.amount
      date == get_daily_period_date(clk)
      is_current_valid == current_state \in {"normal", "overdue"}
      is_target_valid == target_state \in {"normal", "overdue"}
      is_current_breach == current_state = "breach"
      is_target_breach == target_state = "breach"
      tbl1 == update_order_state(tbl, chat_id, target_state)
  IN IF current_state \in {"end", "breach_end"} THEN Out(tbl, L, "terminal")
     ELSE IF current_state = target_state THEN Out(tbl, L, "state_unchanged")
     ELSE IF ~ update_order_rowcount(tbl, chat_id) THEN Out(tbl, L, "db_error")
     ELSE IF is_current_valid /\ is_target_breach
     THEN Out(tbl1,
              update_all_stats(update_all_stats(L, date, "valid", 0 - amount, -1, group_id),
                               date, "breach", amount, 1, group_id),
              "moved_to_breach")
     ELSE IF is_current_breach /\ is_target_valid
     THEN Out(tbl1,
              update_all_stats(update_all_stats(L, date, "breach", 0 - amount, -1, group_id),
                               date, "valid", amount, 1, group_id),
              "moved_to_valid")
     ELSE Out(tbl1, L, "state_changed")

\* is_historical = order_date < threshold_date that is always False
is_historical_never(order_date) == FALSE

\* is_historical = order_date < threshold_date (main.py:489)
is_historical(order_date) == DateBefore(order_date, ThresholdDate)

\* client_field with the two customer classes exchanged
client_field_swapped(customer) ==
  IF customer = "A" THEN "old_clients" ELSE "new_clients"

\* client_field = 'new_clients' if customer == 'A' else 'old_clients' (main.py:545)
client_field(customer) ==
  IF customer = "A" THEN "new_clients" ELSE "old_clients"

\* try_create_order_from_title refusing an amount equal to the balance
try_create_order_from_title_strict(tbl, L, clk, chat_id, title, manual_trigger) ==
  LET parsed_info == ParsedInfo[title]
      existing_order == get_order_by_chat_id(tbl, chat_id)
  IN IF parsed_info = <<>> THEN Out(tbl, L, "invalid_title")
     ELSE IF existing_order # <<>>
     THEN IF manual_trigger THEN Out(tbl, L, "order_exists")
          ELSE update_order_state_from_title(tbl, L, clk, existing_order[1], title)
     ELSE
       LET order_date == parsed_info[1].date
           amount == parsed_info[1].amount
           order_id == parsed_info[1].order_id
           customer == parsed_info[1].customer
           initial_state == get_state_from_title(title)
           group_id == DEFAULT_GROUP
           date == get_daily_period_date(clk)
           new_order == [order_id |-> order_id, group_id |-> group_id,
                         chat_id |-> chat_id, date |-> order_date,
                         group |-> get_current_group(clk), customer |-> customer,
                         amount |-> amount, state |-> initial_state]
           is_initial_breach == initial_state = "breach"
           L1 == IF is_initial_breach
                 THEN update_all_stats(L, date, "breach", amount, 1, group_id)
                 ELSE update_all_stats(L, date, "valid", amount, 1, group_id)
           L2 == update_liquid_capital(L1, date, 0 - amount)
           L3 == update_all_stats(L2, date, client_field(customer), amount, 1, group_id)
       IN IF ~ is_historical(order_date) /\ L.fin["liquid_funds"] <= amount
          THEN Out(tbl, L, "insufficient_funds")
          ELSE IF ~ create_order_ok(tbl, new_order) THEN Out(tbl, L, "duplicate")
          ELSE IF ~ is_historical(order_date)
          THEN Out(create_order(tbl, new_order), L3, "created")
          ELSE Out(create_order(tbl, new_order), L1, "imported")

\* try_create_order_from_title (main.py:448)
try_create_order_from_title(tbl, L, clk, chat_id, title, manual_trigger) ==
  LET parsed_info == ParsedInfo[title]
      existing_order == get_order_by_chat_id(tbl, chat_id)
  IN IF parsed_info = <<>> THEN Out(tbl, L, "invalid_title")
     ELSE IF existing_order # <<>>
     THEN IF manual_trigger THEN Out(tbl, L, "order_exists")
          ELSE update_order_state_from_title(tbl, L, clk, existing_order[1], title)
     ELSE
       LET order_date == parsed_info[1].date
           amount == parsed_info[1].amount
           order_id == parsed_info[1].order_id
           customer == parsed_info[1].customer
           initial_state == get_state_from_title(title)
           group_id == DEFAULT_GROUP
           date == get_daily_period_date(clk)
           new_order == [order_id |-> order_id, group_id |-> group_id,
                         chat_id |-> chat_id, date |-> order_date,
                         group |-> get_current_group(clk), customer |-> customer,
                         amount |-> amount, state |-> initial_state]
           is_initial_breach == initial_state = "breach"
           L1 == IF is_initial_breach
                 THEN update_all_stats(L, date, "breach", amount, 1, group_id)
                 ELSE update_all_stats(L, date, "valid", amount, 1, group_id)
           L2 == update_liquid_capital(L1, date, 0 - amount)
           L3 == update_all_stats(L2, date, client_field(customer), amount, 1, group_id)
       IN IF ~ is_historical(order_date) /\ L.fin["liquid_funds"] < amount
          THEN Out(tbl, L, "insufficient_funds")
          ELSE IF ~ create_order_ok(tbl, new_order) THEN Out(tbl, L, "duplicate")
          ELSE IF ~ is_historical(order_date)
          THEN Out(create_order(tbl, new_order), L3, "created")
          ELSE Out(create_order(tbl, new_order), L1, "imported")

\* handle_new_chat_title (main.py:687)
handle_new_chat_title(tbl, L, clk, chat_id, new_title) ==
  LET existing_order == get_order_by_chat_id(tbl, chat_id)
  IN IF new_title = <<>> THEN Out(tbl, L, "ignored")
     ELSE IF existing_order # <<>>
     THEN update_order_state_from_title(tbl, L, clk, existing_order[1], new_title)
     ELSE try_create_order_from_title(tbl, L, clk, chat_id, new_title, FALSE)

\* process_principal_reduction without the comparison with the order's amount
process_principal_reduction_unbounded(tbl, L, clk, order, amount) ==
  LET new_amount == order.amount - amount
      group_id == order.group_id
      date == get_daily_period_date(clk)
      L1 == update_all_stats(L, date, "valid", 0 - amount, 0, group_id)
      L2 == update_all_stats(L1, date, "completed", amount, 0, group_id)
      L3 == update_liquid_capital(L2, date, amount)
  IN IF order.state \notin {"normal", "overdue"} THEN Out(tbl, L, "state_not_allowed")
     ELSE IF amount <= 0 THEN Out(tbl, L, "not_positive")
     ELSE IF ~ update_order_rowcount(tbl, order.chat_id) THEN Out(tbl, L, "db_error")
     ELSE Out(update_order_amount(tbl, order.chat_id, new_amount), L3, "principal_reduced")

\* process_principal_reduction (main.py:799)
process_principal_reduction(tbl, L, clk, order, amount) ==
  LET new_amount == order.amount - amount
      group_id == order.group_id
      date == get_daily_period_date(clk)
      L1 == update_all_stats(L, date, "valid", 0 - amount, 0, group_id)
      L2 == update_all_stats(L1, date, "completed", amount, 0, group_id)
      L3 == update_liquid_capital(L2, date, amount)
  IN IF order.state \notin {"normal", "overdue"} THEN Out(tbl, L, "state_not_allowed")
     ELSE IF amount <= 0 THEN Out(tbl, L, "not_positive")
     ELSE IF amount > order.amount THEN Out(tbl, L, "exceeds_order_amount")
     ELSE IF ~ update_order_rowcount(tbl, order.chat_id) THEN Out(tbl, L, "db_error")
     ELSE Out(update_order_amount(tbl, order.chat_id, new_amount), L3, "principal_reduced")

\* process_interest (main.py:900)
process_interest(tbl, L, clk, order, amount) ==
  LET group_id == order.group_id
      date == get_daily_period_date(clk)
      L1 == update_all_stats(L, date, "interest", amount, 0, group_id)
      L2 == update_liquid_capital(L1, date, amount)
  IN IF amount <= 0 THEN Out(tbl, L, "not_positive")
     ELSE Out(tbl, L2, "interest_received")

\* handle_amount_operation (main.py:704), from an authorised user in a group
handle_amount_operation(tbl, L, clk, chat_id, text) ==
  LET order == get_order_by_chat_id(tbl, chat_id)
      amount_text == SubSeq(text, 2, Len(text))
      ends_b == amount_text # <<>> /\ amount_text[Len(amount_text)] = "b"
      b_amount == Float(SubSeq(amount_text, 1, Len(amount_text) - 1))
      i_amount == Float(amount_text)
      date == get_daily_period_date(clk)
  IN IF text = <<>> \/ text[1] # "+" THEN Out(tbl, L, "ignored")
     ELSE IF amount_text = <<>> THEN Out(tbl, L, "enter_amount")
     ELSE IF ends_b
     THEN IF order = <<>> THEN Out(tbl, L, "no_active_order")
          ELSE IF b_amount = <<>> THEN Out(tbl, L, "invalid_format")
          ELSE process_principal_reduction(tbl, L, clk, order[1], b_amount[1])
     ELSE IF i_amount = <<>> THEN Out(tbl, L, "invalid_amount_format")
     ELSE IF order # <<>> THEN process_interest(tbl, L, clk, order[1], i_amount[1])
     ELSE Out(tbl,
              update_liquid_capital(
                update_all_stats(L, date, "interest", i_amount[1], 0, NULL),
                date, i_amount[1]),
              "interest_success")

\* set_normal (main.py:932)
set_normal(tbl, L, clk, chat_id) ==
  LET order == get_order_by_chat_id(tbl, chat_id)
  IN IF order = <<>> THEN Out(tbl, L, "no_active_order")
     ELSE IF order[1].state # "overdue" THEN Out(tbl, L, "wrong_state")
     ELSE IF ~ update_order_rowcount(tbl, chat_id) THEN Out(tbl, L, "db_error")
     ELSE Out(update_order_state(tbl, chat_id, "normal"), L, "status_updated")

\* set_overdue taking the order out of the valid count
set_overdue_uncounted(tbl, L, clk, chat_id) ==
  LET order == get_order_by_chat_id(tbl, chat_id)
  IN IF order = <<>> THEN Out(tbl, L, "no_active_order")
     ELSE IF order[1].state # "normal" THEN Out(tbl, L, "wrong_state")
     ELSE IF ~ update_order_rowcount(tbl, chat_id) THEN Out(tbl, L, "db_error")
     ELSE Out(update_order_state(tbl, chat_id, "overdue"),
              update_all_stats(L, get_daily_period_date(clk), "valid", 0, -1,
                               order[1].group_id),
              "status_updated")

\* set_overdue (main.py:980)
set_overdue(tbl, L, clk, chat_id) ==
  LET order == get_order_by_chat_id(tbl, chat_id)
  IN IF order = <<>> THEN Out(tbl, L, "no_active_order")
     ELSE IF order[1].state # "normal" THEN Out(tbl, L, "wrong_state")
     ELSE IF ~ update_order_rowcount(tbl, chat_id) THEN Out(tbl, L, "db_error")
     ELSE Out(update_order_state(tbl, chat_id, "overdue"), L, "status_updated")

\* set_end that also accepts an order in breach
set_end_from_breach(tbl, L, clk, chat_id) ==
  LET order == get_order_by_chat_id(tbl, chat_id)
  IN IF order = <<>> THEN Out(tbl, L, "no_active_order")
     ELSE IF order[1].state \notin {"normal", "overdue", "breach"}
     THEN Out(tbl, L, "wrong_state")
     ELSE
       LET group_id == order[1].group_id
           amount == order[1].amount
           date == get_daily_period_date(clk)
           L1 == update_all_stats(L, date, "valid", 0 - amount, -1, group_id)
           L2 == update_all_stats(L1, date, "completed", amount, 1, group_id)
           L3 == update_liquid_capital(L2, date, amount)
       IN Out(update_order_state(tbl, chat_id, "end"), L3, "order_completed")

\* set_end (main.py:1027)
set_end(tbl, L, clk, chat_id) ==
  LET order == get_order_by_chat_id(tbl, chat_id)
  IN IF order = <<>> THEN Out(tbl, L, "no_active_order")
     ELSE IF order[1].state \notin {"normal", "overdue"} THEN Out(tbl, L, "wrong_state")
     ELSE
       LET group_id == order[1].group_id
           amount == order[1].amount
           date == get_daily_period_date(clk)
           L1 == update_all_stats(L, date, "valid", 0 - amount, -1, group_id)
           L2 == update_all_stats(L1, date, "completed", amount, 1, group_id)
           L3 == update_liquid_capital(L2, date, amount)
       IN Out(update_order_state(tbl, chat_id, "end"), L3, "order_completed")

\* set_breach accepting a NORMAL order as well
set_breach_from_valid(tbl, L, clk, chat_id) ==
  LET order == get_order_by_chat_id(tbl, chat_id)
  IN IF order = <<>> THEN Out(tbl, L, "no_active_order")
     ELSE IF order[1].state \notin {"normal", "overdue"} THEN Out(tbl, L, "wrong_state")
     ELSE
       LET group_id == order[1].group_id
           amount == order[1].amount
           date == get_daily_period_date(clk)
           L1 == update_all_stats(L, date, "valid", 0 - amount, -1, group_id)
           L2 == update_all_stats(L1, date, "breach", amount, 1, group_id)
       IN Out(update_order_state(tbl, chat_id, "breach"), L2, "marked_breach")

\* set_breach (main.py:1075)
set_breach(tbl, L, clk, chat_id) ==
  LET order == get_order_by_chat_id(tbl, chat_id)
  IN IF order = <<>> THEN Out(tbl, L, "no_active_order")
     ELSE IF order[1].state # "overdue" THEN Out(tbl, L, "wrong_state")
     ELSE
       LET group_id == order[1].group_id
           amount == order[1].amount
           date == get_daily_period_date(clk)
           L1 == update_all_stats(L, date, "valid", 0 - amount, -1, group_id)
           L2 == update_all_stats(L1, date, "breach", amount, 1, group_id)
       IN Out(update_order_state(tbl, chat_id, "breach"), L2, "marked_breach")

OutU(tbl, L, ud, result) == [orders |-> tbl, L |-> L, ud |-> ud, result |-> result]

\* set_breach_end that writes the state before it looks at the amount
set_breach_end_eager(tbl, L, clk, ud, chat_id, args) ==
  LET order == get_order_by_chat_id(tbl, chat_id)
  IN IF order = <<>> THEN OutU(tbl, L, ud, "no_active_order")
     ELSE IF order[1].state # "breach" THEN OutU(tbl, L, ud, "wrong_state")
     ELSE IF Len(args) > 0
     THEN LET amount == Float(args[1])
              group_id == order[1].group_id
              date == get_daily_period_date(clk)
              tbl1 == update_order_state(tbl, chat_id, "breach_end")
              L1 == update_all_stats(L, date, "breach_end", amount[1], 1, group_id)
              L2 == update_liquid_capital(L1, date, amount[1])
          IN IF amount = <<>> THEN OutU(tbl, L, ud, "invalid_format")
             ELSE IF amount[1] <= 0 THEN OutU(tbl1, L, ud, "not_positive")
             ELSE OutU(tbl1, L2, ud, "breach_ended")
     ELSE OutU(tbl, L,
               [state |-> "WAITING_BREACH_END_AMOUNT", breach_end_chat_id |-> chat_id],
               "prompted")

\* set_breach_end (main.py:1120); args = <<>> is the bare command or the button
set_breach_end(tbl, L, clk, ud, chat_id, args) ==
  LET order == get_order_by_chat_id(tbl, chat_id)
  IN IF order = <<>> THEN OutU(tbl, L, ud, "no_active_order")
     ELSE IF order[1].state # "breach" THEN OutU(tbl, L, ud, "wrong_state")
     ELSE IF Len(args) > 0
     THEN LET amount == Float(args[1])
              group_id == order[1].group_id
              date == get_daily_period_date(clk)
              L1 == update_all_stats(L, date, "breach_end", amount[1], 1, group_id)
              L2 == update_liquid_capital(L1, date, amount[1])
          IN IF amount = <<>> THEN OutU(tbl, L, ud, "invalid_format")
             ELSE IF amount[1] <= 0 THEN OutU(tbl, L, ud, "not_positive")
             ELSE OutU(update_order_state(tbl, chat_id, "breach_end"), L2, ud,
                       "breach_ended")
     ELSE OutU(tbl, L,
               [state |-> "WAITING_BREACH_END_AMOUNT", breach_end_chat_id |-> chat_id],
               "prompted")

\* handle_text_input that writes the order's amount less the settlement before
\* it ends the order
handle_text_input_settling(tbl, L, clk, ud, chat_type, text) ==
  LET user_state == ud.state
      allow_group == user_state = "WAITING_BREACH_END_AMOUNT"
      cleared == [ud EXCEPT !.state = "None"]
      amount == Float(text)
      chat_id == ud.breach_end_chat_id
      order == get_order_by_chat_id(tbl, chat_id)
      date == get_daily_period_date(clk)
  IN IF text # <<>> /\ text[1] = "+" THEN OutU(tbl, L, ud, "ignored")
     ELSE IF chat_type # "private" /\ ~ allow_group THEN OutU(tbl, L, ud, "ignored")
     ELSE IF user_state = "None" THEN OutU(tbl, L, ud, "ignored")
     ELSE IF text = <<"c", "a", "n", "c", "e", "l">> THEN OutU(tbl, L, cleared, "cancelled")
     ELSE IF amount = <<>> THEN OutU(tbl, L, ud, "invalid_amount")
     ELSE IF amount[1] <= 0 THEN OutU(tbl, L, ud, "not_positive")
     ELSE IF chat_id = 0 THEN OutU(tbl, L, cleared, "state_error")
     ELSE IF order = <<>> \/ order[1].state # "breach"
     THEN OutU(tbl, L, cleared, "order_changed")
     ELSE LET group_id == order[1].group_id
              L1 == update_all_stats(L, date, "breach_end", amount[1], 1, group_id)
              L2 == update_liquid_capital(L1, date, amount[1])
              tbl1 == update_order_amount(tbl, chat_id, order[1].amount - amount[1])
          IN OutU(update_order_state(tbl1, chat_id, "breach_end"), L2, cleared,
                  "breach_ended")

\* handle_text_input (main.py:1959), the branches of the breach-end prompt
handle_text_input(tbl, L, clk, ud, chat_type, text) ==
  LET user_state == ud.state
      allow_group == user_state = "WAITING_BREACH_END_AMOUNT"
      cleared == [ud EXCEPT !.state = "None"]
      amount == Float(text)
      chat_id == ud.breach_end_chat_id
      order == get_order_by_chat_id(tbl, chat_id)
      date == get_daily_period_date(clk)
  IN IF text # <<>> /\ text[1] = "+" THEN OutU(tbl, L, ud, "ignored")
     ELSE IF chat_type # "private" /\ ~ allow_group THEN OutU(tbl, L, ud, "ignored")
     ELSE IF user_state = "None" THEN OutU(tbl, L, ud, "ignored")
     ELSE IF text = <<"c", "a", "n", "c", "e", "l">> THEN OutU(tbl, L, cleared, "cancelled")
     ELSE IF amount = <<>> THEN OutU(tbl, L, ud, "invalid_amount")
     ELSE IF amount[1] <= 0 THEN OutU(tbl, L, ud, "not_positive")
     ELSE IF chat_id = 0 THEN OutU(tbl, L, cleared, "state_error")
     ELSE IF order = <<>> \/ order[1].state # "breach"
     THEN OutU(tbl, L, cleared, "order_changed")
     ELSE LET group_id == order[1].group_id
              L1 == update_all_stats(L, date, "breach_end", amount[1], 1, group_id)
              L2 == update_liquid_capital(L1, date, amount[1])
          IN OutU(update_order_state(tbl, chat_id, "breach_end"), L2, cleared,
                  "breach_ended")

\* adjust_funds (main.py:1879); a float() ValueError ends in error_handler
adjust_funds(tbl, L, clk, args) ==
  LET amount_str == args[1]
      amount == Float(amount_str)
      date == get_daily_period_date(clk)
  IN IF Len(args) < 1 THEN Out(tbl, L, "usage")
     ELSE IF amount_str = <<>> \/ amount_str[1] \notin {"+", "-"}
     THEN Out(tbl, L, "format_error")
     ELSE IF amount = <<>> THEN Out(tbl, L, "error")
     ELSE IF amount[1] = 0 THEN Out(tbl, L, "zero")
     ELSE Out(tbl, update_liquid_capital(L, date, amount[1]), "adjusted")

\* create_attribution (main.py:1915) for a well-formed id
create_attribution(tbl, L, group_id) ==
  IF group_id \in DOMAIN L.grp THEN Out(tbl, L, "exists")
  ELSE Out(tbl, [L EXCEPT !.grp = update_grouped_data(L.grp, group_id, "valid_orders", 0)],
           "attribution_created")

\* ------------------------------------------------------------------- state
VARIABLES
  orders,          \* table orders
  financial_data,  \* the row of table financial_data (Global)
  grouped_data,    \* table grouped_data (Group), by group_id
  daily_data,      \* table daily_data (Daily)
  user_data,       \* context.user_data of each user
  clock,           \* wall clock: day and hour
  steps,           \* number of events so far (updates handled, clock ticks)
  last,            \* the last update handled: command, chat, exit taken, the
                   \* active order and the Global balance it found
  inflight,        \* the handler each concurrent worker is in: where it
                   \* stands, the order row it has read, the calls of
                   \* db_operations it has still to make (todo) and what
                   \* the call it is in has selected (cur)
  title_in,        \* a title handed to parse_order_from_title on its own
  parsed_out       \* what parse_order_from_title returned for title_in

decode_vars == <<title_in, parsed_out>>

vars ==
  <<orders, financial_data, grouped_data, daily_data, user_data, clock, steps, last,
    inflight, title_in, parsed_out>>

\* the workers that can run a handler while another one is suspended
Procs == {"p1", "p2"}

\* a worker with no handler running
Idle == [pc |-> "idle", chat_id |-> 0, order |-> <<>>, todo |-> <<>>, cur |-> <<>>]

\* parse_order_from_title not yet called
NotParsed == [done |-> FALSE, value |-> <<>>]

Ledger ==
  [fin |-> financial_data, grp |-> grouped_data, day |-> daily_data, failed |-> FALSE]

\* init_database (init_db.py:12): empty tables, one Global row with the
\* opening balance
InitDatabase ==
  /\ orders = <<>>
  /\ financial_data = [ZeroFin EXCEPT !["liquid_funds"] = InitialLiquidFunds]
  /\ grouped_data = <<>>
  /\ daily_data = <<>>
  /\ user_data = [u \in Users |-> [state |-> "None", breach_end_chat_id |-> 0]]
  /\ clock = [day |-> 1, hour |-> 12]
  /\ steps = 0
  /\ last = [cmd |-> "init", chat |-> 0, result |-> "", failed |-> FALSE,
             order |-> <<>>,
             pre |-> [liquid_funds |-> 0, valid_amount |-> 0, fin |-> <<>>, grp |-> <<>>,
                      day |-> <<>>]]

\* the bot as main() starts it: updates are handled one at a time
Init ==
  /\ InitDatabase
  /\ inflight = [p \in Procs |-> Idle]
  /\ title_in = <<>>
  /\ parsed_out = NotParsed

\* the ledgers as the command found them
Before ==
  [liquid_funds |-> financial_data["liquid_funds"],
   valid_amount |-> financial_data["valid_amount"],
   fin |-> financial_data, grp |-> grouped_data, day |-> daily_data]

Seen(cmd, chat_id, r) ==
  [cmd |-> cmd, chat |-> chat_id, result |-> r.result, failed |-> r.L.failed,
   order |-> get_order_by_chat_id(orders, chat_id),
   pre |-> Before]

Commit(r) ==
  /\ orders' = r.orders
  /\ financial_data' = r.L.fin
  /\ grouped_data' = r.L.grp
  /\ daily_data' = r.L.day

\* one more event
Taken == steps < MaxSteps /\ steps' = steps + 1

\* ----------------------------------------------------------------- actions
CreateOrder(c, t) ==
  LET r == try_create_order_from_title(orders, Ledger, clock, c, t, TRUE)
  IN /\ Taken
     /\ Commit(r)
     /\ last' = Seen("create", c, r)
     /\ UNCHANGED <<user_data, clock, inflight, decode_vars>>

NewChatTitle(c, t) ==
  LET r == handle_new_chat_title(orders, Ledger, clock, c, t)
  IN /\ Taken
     /\ Commit(r)
     /\ last' = Seen("new_chat_title", c, r)
     /\ UNCHANGED <<user_data, clock, inflight, decode_vars>>

AmountOperation(c, text) ==
  LET r == handle_amount_operation(orders, Ledger, clock, c, text)
  IN /\ Taken
     /\ Commit(r)
     /\ last' = Seen("amount", c, r)
     /\ UNCHANGED <<user_data, clock, inflight, decode_vars>>

SetNormal(c) ==
  LET r == set_normal(orders, Ledger, clock, c)
  IN /\ Taken
     /\ Commit(r)
     /\ last' = Seen("normal", c, r)
     /\ UNCHANGED <<user_data, clock, inflight, decode_vars>>

SetOverdue(c) ==
  LET r == set_overdue(orders, Ledger, clock, c)
  IN /\ Taken
     /\ Commit(r)
     /\ last' = Seen("overdue", c, r)
     /\ UNCHANGED <<user_data, clock, inflight, decode_vars>>

SetEnd(c) ==
  LET r == set_end(orders, Ledger, clock, c)
  IN /\ Taken
     /\ Commit(r)
     /\ last' = Seen("end", c, r)
     /\ UNCHANGED <<user_data, clock, inflight, decode_vars>>

SetBreach(c) ==
  LET r == set_breach(orders, Ledger, clock, c)
  IN /\ Taken
     /\ Commit(r)
     /\ last' = Seen("breach", c, r)
     /\ UNCHANGED <<user_data, clock, inflight, decode_vars>>

SetBreachEnd(u, c, args) ==
  LET r == set_breach_end(orders, Ledger, clock, user_data[u], c, args)
  IN /\ Taken
     /\ Commit(r)
     /\ user_data' = [user_data EXCEPT ![u] = r.ud]
     /\ last' = Seen("breach_end", c, r)
     /\ UNCHANGED <<clock, inflight, decode_vars>>

\* a text handler whose writes to context.user_data are not kept
TextInputKeepingState(u, chat_type, text) ==
  LET r == handle_text_input(orders, Ledger, clock, user_data[u], chat_type, text)
  IN /\ Taken
     /\ Commit(r)
     /\ user_data' = user_data
     /\ last' = Seen("text", user_data[u].breach_end_chat_id, r)
     /\ UNCHANGED <<clock, inflight, decode_vars>>

TextInput(u, chat_type, text) ==
  LET r == handle_text_input(orders, Ledger, clock, user_data[u], chat_type, text)
  IN /\ Taken
     /\ Commit(r)
     /\ user_data' = [user_data EXCEPT ![u] = r.ud]
     /\ last' = Seen("text", user_data[u].breach_end_chat_id, r)
     /\ UNCHANGED <<clock, inflight, decode_vars>>

AdjustFunds(args) ==
  LET r == adjust_funds(orders, Ledger, clock, args)
  IN /\ Taken
     /\ Commit(r)
     /\ last' = Seen("adjust", 0, r)
     /\ UNCHANGED <<user_data, clock, inflight, decode_vars>>

CreateAttribution(g) ==
  LET r == create_attribution(orders, Ledger, g)
  IN /\ Taken
     /\ Commit(r)
     /\ last' = Seen("create_attribution", 0, r)
     /\ UNCHANGED <<user_data, clock, inflight, decode_vars>>

\* the wall clock passes 23:00, then midnight
Tick ==
  /\ Taken
  /\ \/ clock.hour < 23 /\ clock' = [clock EXCEPT !.hour = 23]
     \/ clock.hour >= 23 /\ clock.day < MaxDay /\ clock' = [day |-> clock.day + 1, hour |-> 12]
  /\ UNCHANGED <<orders, financial_data, grouped_data, daily_data, user_data, last,
                 inflight, decode_vars>>

Next ==
  \/ \E c \in Chats : \E t \in TitlesOf(c) : CreateOrder(c, t)
  \/ \E c \in Chats : \E t \in TitlesOf(c) : NewChatTitle(c, t)
  \/ \E c \in Chats, text \in QuickTexts : AmountOperation(c, text)
  \/ \E c \in Chats : SetNormal(c)
  \/ \E c \in Chats : SetOverdue(c)
  \/ \E c \in Chats : SetEnd(c)
  \/ \E c \in Chats : SetBreach(c)
  \/ \E u \in Users, c \in Chats, args \in BreachEndArgs : SetBreachEnd(u, c, args)
  \/ \E u \in Users, ct \in ChatTypes, text \in PlainTexts : TextInput(u, ct, text)
  \/ \E args \in AdjustArgs : AdjustFunds(args)
  \/ \E g \in AttributionIds : CreateAttribution(g)
  \/ Tick

Spec == Init /\ [][Next]_vars

\* ------------------------------------------------------ reading the ledgers
\* sum of a column over the Group rows of the ids in S
RECURSIVE GroupSumOver(_, _, _)
GroupSumOver(gd, S, field) ==
  IF S = {} THEN 0
  ELSE LET g == CHOOSE x \in S : TRUE
       IN gd[g][field] + GroupSumOver(gd, S \ {g}, field)

\* sum of a column over all Group rows
GroupSum(field) == GroupSumOver(grouped_data, DOMAIN grouped_data, field)

\* a column of a Group row, 0 while the row does not exist
GroupVal(gd, g, field) == IF g \in DOMAIN gd THEN gd[g][field] ELSE 0

\* the same record but for the named columns, which moved by the given deltas
Moved(old, new, deltas) ==
  /\ DOMAIN new = DOMAIN old
  /\ \A f \in DOMAIN old :
       new[f] = old[f] + (IF f \in DOMAIN deltas THEN deltas[f] ELSE 0)

\* a Group row moved by the deltas (an absent row counts as all zero)
GroupMoved(g, deltas) ==
  /\ g \in DOMAIN grouped_data'
  /\ \A f \in FinColumns :
       grouped_data'[g][f] =
         GroupVal(grouped_data, g, f) + (IF f \in DOMAIN deltas THEN deltas[f] ELSE 0)
  /\ \A h \in DOMAIN grouped_data : h # g => grouped_data'[h] = grouped_data[h]

LedgersUnchanged == UNCHANGED <<financial_data, grouped_data, daily_data>>

TablesUnchanged == UNCHANGED <<orders, financial_data, grouped_data, daily_data>>

\* the text "+<r>b" asks for a principal reduction by r
ReduceBy(text) ==
  IF Len(text) >= 2 /\ text[1] = "+" /\ text[Len(text)] = "b"
  THEN Float(SubSeq(text, 2, Len(text) - 1)) ELSE <<>>

\* ------------------------------------------------------------------ claims

\* C1: after any sequence of completed commands Global valid_amount is the
\* sum of valid_amount over all Group rows, and Global valid_orders the sum of
\* valid_orders over all Group rows.
C1_GlobalValidIsGroupSum ==
  /\ financial_data["valid_amount"] = GroupSum("valid_amount")
  /\ financial_data["valid_orders"] = GroupSum("valid_orders")

\* two Group rows exist and a principal reduction has just lowered a live order
C1_Witness ==
  /\ Cardinality(DOMAIN grouped_data) >= 2
  /\ last.cmd = "amount" /\ last.result = "principal_reduced"
  /\ financial_data["valid_amount"] > 0

\* C2: END on a NORMAL order of amount A in group G succeeds, sets the order
\* to END, moves (A, 1) from valid to completed in Global and in Group G and
\* credits Global liquid_funds by A.
C2_EndFromNormal ==
  [][\A c \in Chats :
       LET o == get_order_by_chat_id(orders, c) IN
       (/\ last'.cmd = "end" /\ last'.chat = c
        /\ o # <<>> /\ o[1].state = "normal"
        /\ SetEnd(c)) =>
         LET A == o[1].amount
             G == o[1].group_id
         IN /\ last'.result = "order_completed"
            /\ Len(orders') = Len(orders)
            /\ \A i \in 1..Len(orders) :
                 orders'[i] = IF IsActiveRow(orders[i], c)
                              THEN [orders[i] EXCEPT !.state = "end"]
                              ELSE orders[i]
            /\ Moved(financial_data, financial_data',
                     [valid_orders |-> -1, valid_amount |-> 0 - A,
                      completed_orders |-> 1, completed_amount |-> A,
                      liquid_funds |-> A])
            /\ GroupMoved(G, [valid_orders |-> -1, valid_amount |-> 0 - A,
                              completed_orders |-> 1, completed_amount |-> A])
  ]_vars

\* /end has just completed an order it found NORMAL with a positive amount
C2_Witness ==
  /\ last.cmd = "end" /\ last.result = "order_completed"
  /\ last.order # <<>> /\ last.order[1].state = "normal" /\ last.order[1].amount > 0
  /\ \E i \in 1..Len(orders) :
       orders[i].order_id = last.order[1].order_id /\ orders[i].state = "end"

\* ------------------------------------------------------------------ C3, C7
\* the Global movement of a creation: (A, 1) on valid, or on breach for an
\* initial BREACH; with the debit also (A, 1) on the customer's class and
\* liquid_funds less A
CreationDeltas(A, state, customer, debit) ==
  [f \in FinColumns |->
     CASE f = "valid_amount" /\ state # "breach" -> A
       [] f = "valid_orders" /\ state # "breach" -> 1
       [] f = "breach_amount" /\ state = "breach" -> A
       [] f = "breach_orders" /\ state = "breach" -> 1
       [] f = "new_clients_amount" /\ customer = "A" /\ debit -> A
       [] f = "new_clients" /\ customer = "A" /\ debit -> 1
       [] f = "old_clients_amount" /\ customer # "A" /\ debit -> A
       [] f = "old_clients" /\ customer # "A" /\ debit -> 1
       [] f = "liquid_funds" /\ debit -> 0 - A
       [] OTHER -> 0]

\* the same movement in the Group row, whose liquid_funds nobody writes
GroupCreationDeltas(A, state, customer, debit) ==
  [CreationDeltas(A, state, customer, debit) EXCEPT !["liquid_funds"] = 0]

\* title t asks for a new order in chat c: it parses, the chat has no active
\* order and the order id is not in the table
Creatable(c, t) ==
  LET p == ParsedInfo[t]
  IN /\ p # <<>>
     /\ get_order_by_chat_id(orders, c) = <<>>
     /\ \A i \in 1..Len(orders) : orders[i].order_id # p[1].order_id

\* one row was appended for title t in chat c, the rows before it untouched
Stored(c, t) ==
  LET p == ParsedInfo[t]
      row == orders'[Len(orders')]
  IN /\ Len(orders') = Len(orders) + 1
     /\ SubSeq(orders', 1, Len(orders)) = orders
     /\ row.order_id = p[1].order_id /\ row.chat_id = c
     /\ row.amount = p[1].amount /\ row.customer = p[1].customer
     /\ row.state = get_state_from_title(t) /\ row.group_id = DEFAULT_GROUP

\* C3: a non-historical creation with amount A in a chat without active order
\* and with enough liquid funds stores the order, adds (A, 1) to valid (to
\* breach for an initial BREACH), adds (A, 1) to exactly one of new_clients and
\* old_clients by the customer class and debits Global liquid_funds by A; an
\* END right after the creation brings liquid_funds and valid_amount back to
\* their values before the creation.
C3_CreateThenEnd ==
  [][/\ \A c \in Chats : \A t \in TitlesOf(c) :
          LET p == ParsedInfo[t] IN
          (/\ last'.cmd \in {"create", "new_chat_title"} /\ last'.chat = c
           /\ Creatable(c, t)
           /\ ~ DateBefore(p[1].date, ThresholdDate)
           /\ financial_data["liquid_funds"] >= p[1].amount
           /\ (CreateOrder(c, t) \/ NewChatTitle(c, t)))
          => /\ last'.result = "created"
             /\ Stored(c, t)
             /\ Moved(financial_data, financial_data',
                      CreationDeltas(p[1].amount, get_state_from_title(t),
                                     p[1].customer, TRUE))
             /\ GroupMoved(DEFAULT_GROUP,
                           GroupCreationDeltas(p[1].amount, get_state_from_title(t),
                                               p[1].customer, TRUE))
     /\ \A c \in Chats :
          (/\ last.result = "created" /\ last.chat = c
           /\ last'.cmd = "end" /\ last'.result = "order_completed"
           /\ SetEnd(c))
          => /\ financial_data'["liquid_funds"] = last.pre.liquid_funds
             /\ financial_data'["valid_amount"] = last.pre.valid_amount
    ]_vars

\* an order of a returning customer was created against the opening balance
\* and ended by the next command: the balance is the opening balance again
C3_Witness ==
  /\ steps = 2 /\ last.cmd = "end" /\ last.result = "order_completed"
  /\ Len(orders) = 1 /\ orders[1].state = "end" /\ orders[1].amount > 0
  /\ financial_data["old_clients"] = 1
  /\ financial_data["old_clients_amount"] = orders[1].amount
  /\ financial_data["new_clients"] = 0
  /\ financial_data["liquid_funds"] = InitialLiquidFunds
  /\ financial_data["valid_amount"] = 0
  /\ financial_data["completed_amount"] = orders[1].amount

\* ---------------------------------------------------------------------- C4
\* C4: a principal reduction by r, 0 < r <= amount, on an order in NORMAL or
\* OVERDUE sets the order's amount to amount - r, takes r from valid_amount,
\* adds r to completed_amount and to Global liquid_funds, and changes neither
\* valid_orders nor completed_orders nor the order's state.
C4_PrincipalReduction ==
  [][\A c \in Chats : \A text \in QuickTexts :
       LET o == get_order_by_chat_id(orders, c)
           r == ReduceBy(text)
       IN (/\ last'.cmd = "amount" /\ last'.chat = c
           /\ o # <<>> /\ r # <<>>
           /\ o[1].state \in {"normal", "overdue"}
           /\ 0 < r[1] /\ r[1] <= o[1].amount
           /\ AmountOperation(c, text))
          => /\ last'.result = "principal_reduced"
             /\ Len(orders') = Len(orders)
             /\ \A i \in 1..Len(orders) :
                  orders'[i] = IF IsActiveRow(orders[i], c)
                               THEN [orders[i] EXCEPT !.amount = o[1].amount - r[1]]
                               ELSE orders[i]
             /\ Moved(financial_data, financial_data',
                      [valid_amount |-> 0 - r[1], completed_amount |-> r[1],
                       liquid_funds |-> r[1]])
             /\ GroupMoved(o[1].group_id,
                           [valid_amount |-> 0 - r[1], completed_amount |-> r[1]])
    ]_vars

\* an OVERDUE order has just been reduced and is still OVERDUE, with less owed
C4_Witness ==
  /\ last.cmd = "amount" /\ last.result = "principal_reduced"
  /\ last.order # <<>> /\ last.order[1].state = "overdue"
  /\ \E i \in 1..Len(orders) :
       /\ orders[i].order_id = last.order[1].order_id
       /\ orders[i].state = "overdue"
       /\ orders[i].amount < last.order[1].amount
       /\ orders[i].amount > 0

\* ---------------------------------------------------------------------- C5
\* C5: a principal reduction is rejected, with the orders table and every
\* ledger unchanged, when reduceBy <= 0, when reduceBy exceeds the order's
\* remaining amount, or when the order is not in NORMAL or OVERDUE: a BREACH
\* order is not reduced, and a chat whose orders are all terminal has no order
\* to reduce.
C5_ReductionRejected ==
  [][\A c \in Chats : \A text \in QuickTexts :
       LET o == get_order_by_chat_id(orders, c)
           r == ReduceBy(text)
       IN (/\ last'.cmd = "amount" /\ last'.chat = c
           /\ r # <<>>
           /\ \/ o = <<>>
              \/ o[1].state \notin {"normal", "overdue"}
              \/ r[1] <= 0
              \/ r[1] > o[1].amount
           /\ AmountOperation(c, text))
          => /\ last'.result \in {"no_active_order", "state_not_allowed",
                                  "not_positive", "exceeds_order_amount"}
             /\ o = <<>> <=> last'.result = "no_active_order"
             /\ TablesUnchanged
    ]_vars

\* an order already reduced below its opening amount has just refused a
\* reduction larger than what remains of it
C5_Witness ==
  /\ last.cmd = "amount" /\ last.result = "exceeds_order_amount"
  /\ last.order # <<>> /\ last.order[1].state \in {"normal", "overdue"}
  /\ financial_data["completed_amount"] > 0
  /\ \E i \in 1..Len(orders) : orders[i] = last.order[1]

\* ---------------------------------------------------------------------- C6
\* C6: END asked for an order in BREACH is rejected: the orders table and the
\* Global, Group and Daily ledgers are unchanged, and the same request made
\* again meets the same rejection.
C6_EndOnBreachRejected ==
  [][\A c \in Chats :
       LET o == get_order_by_chat_id(orders, c)
       IN (/\ last'.cmd = "end" /\ last'.chat = c
           /\ o # <<>> /\ o[1].state = "breach"
           /\ SetEnd(c))
          => /\ last'.result = "wrong_state"
             /\ TablesUnchanged
             /\ set_end(orders', Ledger', clock', c).result = "wrong_state"
    ]_vars

\* /end has just been refused for an order that is in BREACH and stays there
C6_Witness ==
  /\ last.cmd = "end" /\ last.result = "wrong_state"
  /\ last.order # <<>> /\ last.order[1].state = "breach"
  /\ get_order_by_chat_id(orders, last.chat) = last.order
  /\ financial_data["breach_orders"] = 1
  /\ financial_data["completed_orders"] = 0

\* ---------------------------------------------------------------------- C7
\* the Daily rows kept by date and group key
DailyKeys(dd) == {<<dd[i].date, dd[i].group_id>> : i \in 1..Len(dd)}

\* a column of the Daily row of a key, 0 while the row does not exist
DailyVal(dd, key, field) ==
  LET hits == {i \in 1..Len(dd) : dd[i].date = key[1] /\ dd[i].group_id = key[2]}
  IN IF hits = {} THEN 0 ELSE dd[SetMin(hits)][field]

\* no Daily column outside `fields` changed its value
DailyMovedOnly(fields) ==
  \A key \in DailyKeys(daily_data) \cup DailyKeys(daily_data') :
    \A f \in DailyColumns \ fields :
      DailyVal(daily_data', key, f) = DailyVal(daily_data, key, f)

\* C7: the creation of an order dated before 2025-11-25 makes no balance
\* check, leaves Global liquid_funds, the Daily liquid flow and
\* new_clients/old_clients as they were and adds (A, 1) to valid only (to
\* breach only for an initial BREACH), also when A exceeds liquid_funds.
C7_HistoricalImport ==
  [][\A c \in Chats : \A t \in TitlesOf(c) :
       LET p == ParsedInfo[t]
           initial_state == get_state_from_title(t)
       IN (/\ last'.cmd \in {"create", "new_chat_title"} /\ last'.chat = c
           /\ Creatable(c, t)
           /\ DateBefore(p[1].date, ThresholdDate)
           /\ (CreateOrder(c, t) \/ NewChatTitle(c, t)))
          => /\ last'.result = "imported"
             /\ Stored(c, t)
             /\ Moved(financial_data, financial_data',
                      CreationDeltas(p[1].amount, initial_state, p[1].customer, FALSE))
             /\ GroupMoved(DEFAULT_GROUP,
                           GroupCreationDeltas(p[1].amount, initial_state,
                                               p[1].customer, FALSE))
             /\ financial_data'["liquid_funds"] = financial_data["liquid_funds"]
             /\ IF initial_state = "breach"
                THEN DailyMovedOnly({"breach_amount", "breach_orders"})
                ELSE daily_data' = daily_data
    ]_vars

\* an order dated before the threshold was imported while the balance was
\* below its amount, and the balance is still what it was
C7_Witness ==
  /\ last.result = "imported"
  /\ Len(orders) >= 1
  /\ orders[Len(orders)].amount > last.pre.liquid_funds
  /\ financial_data["liquid_funds"] = last.pre.liquid_funds
  /\ financial_data["valid_amount"] = last.pre.valid_amount + orders[Len(orders)].amount

\* ---------------------------------------------------------------------- C8
\* C8: a row of orders whose state is END or BREACH_END keeps its state and
\* its amount through every command, title change, quick amount message and
\* pending breach-end input.
C8_TerminalIsFinal ==
  [][\A i \in 1..Len(orders) :
       orders[i].state \in {"end", "breach_end"}
       => /\ Len(orders') >= i
          /\ orders'[i].order_id = orders[i].order_id
          /\ orders'[i].state = orders[i].state
          /\ orders'[i].amount = orders[i].amount
    ]_vars

\* a chat holds an ended order and a later order, and the later one has just
\* been moved to OVERDUE or reduced
C8_Witness ==
  /\ last.cmd \in {"overdue", "amount"}
  /\ last.result \in {"status_updated", "principal_reduced"}
  /\ \E i, j \in 1..Len(orders) :
       /\ i < j
       /\ orders[i].chat_id = last.chat /\ orders[j].chat_id = last.chat
       /\ orders[i].state = "end"
       /\ orders[j].state \in {"normal", "overdue"}
       /\ orders[j] # last.order[1]

\* ---------------------------------------------------------------------- C9
\* the exits of a command refused on a precondition: no active order in the
\* chat, wrong source state, amount not positive or over the limit,
\* insufficient liquid funds, duplicate order id
Rejections ==
  {"no_active_order", "wrong_state", "state_not_allowed", "order_changed",
   "not_positive", "exceeds_order_amount", "insufficient_funds", "duplicate"}

\* C9: a command refused on a precondition leaves the orders table and the
\* Global, Group and Daily ledgers exactly as they were; a state command in a
\* chat without active order and a creation the balance cannot pay are so
\* refused.
C9_RejectionChangesNothing ==
  [][/\ last'.result \in Rejections => TablesUnchanged
     /\ \A c \in Chats :
          (/\ last'.cmd \in {"normal", "overdue", "end", "breach", "breach_end"}
           /\ last'.chat = c
           /\ get_order_by_chat_id(orders, c) = <<>>
           /\ \/ SetNormal(c) \/ SetOverdue(c) \/ SetEnd(c) \/ SetBreach(c)
              \/ \E u \in Users, args \in BreachEndArgs : SetBreachEnd(u, c, args))
          => last'.result = "no_active_order"
     /\ \A c \in Chats : \A t \in TitlesOf(c) :
          LET p == ParsedInfo[t] IN
          (/\ last'.cmd \in {"create", "new_chat_title"} /\ last'.chat = c
           /\ p # <<>>
           /\ get_order_by_chat_id(orders, c) = <<>>
           /\ ~ DateBefore(p[1].date, ThresholdDate)
           /\ financial_data["liquid_funds"] < p[1].amount
           /\ (CreateOrder(c, t) \/ NewChatTitle(c, t)))
          => last'.result = "insufficient_funds"
    ]_vars

\* /breach_end with an amount that is not positive has just been refused for
\* an order in BREACH, which is still in BREACH
C9_Witness ==
  /\ last.cmd = "breach_end" /\ last.result = "not_positive"
  /\ last.order # <<>> /\ last.order[1].state = "breach"
  /\ get_order_by_chat_id(orders, last.chat) = last.order
  /\ financial_data["breach_end_orders"] = 0

\* --------------------------------------------------------------------- C10
\* C10: the creation of an order whose order_id is already in the orders
\* table, be the holder of the id in END or BREACH_END, fails: no row is added
\* and no Global, Group or Daily value changes.
C10_DuplicateOrderId ==
  [][\A c \in Chats : \A t \in TitlesOf(c) :
       LET p == ParsedInfo[t] IN
       (/\ last'.cmd \in {"create", "new_chat_title"} /\ last'.chat = c
        /\ p # <<>>
        /\ get_order_by_chat_id(orders, c) = <<>>
        /\ \E i \in 1..Len(orders) : orders[i].order_id = p[1].order_id
        /\ (CreateOrder(c, t) \/ NewChatTitle(c, t)))
       => /\ last'.result \in {"duplicate", "insufficient_funds"}
          /\ (DateBefore(p[1].date, ThresholdDate)
               \/ financial_data["liquid_funds"] >= p[1].amount)
             => last'.result = "duplicate"
          /\ TablesUnchanged
    ]_vars

\* a creation has just failed on its order id while the only order of the
\* table, the holder of that id, is terminal
C10_Witness ==
  /\ last.cmd \in {"create", "new_chat_title"} /\ last.result = "duplicate"
  /\ last.order = <<>>
  /\ Len(orders) = 1 /\ orders[1].state \in {"end", "breach_end"}
  /\ orders[1].chat_id = last.chat
  /\ financial_data["liquid_funds"] = last.pre.liquid_funds

\* --------------------------------------------------------------------- C11
\* the rows of a chat that are neither END nor BREACH_END
ActiveRows(tbl, c) ==
  {i \in 1..Len(tbl) : tbl[i].chat_id = c /\ tbl[i].state \notin {"end", "breach_end"}}

\* C11: every chat has at most one order that is neither END nor BREACH_END;
\* a row is added only for a chat that had no such order, and a chat whose
\* earlier orders are all terminal is given a new order on a creation that the
\* title, the order id and the balance allow.
C11_OneActiveOrderPerChat ==
  [][/\ \A c \in Chats : Cardinality(ActiveRows(orders, c)) <= 1
     /\ \A c \in Chats : Cardinality(ActiveRows(orders', c)) <= 1
     /\ Len(orders') > Len(orders)
        => /\ Len(orders') = Len(orders) + 1
           /\ ActiveRows(orders, orders'[Len(orders')].chat_id) = {}
     /\ \A c \in Chats : \A t \in TitlesOf(c) :
          LET p == ParsedInfo[t] IN
          (/\ last'.cmd \in {"create", "new_chat_title"} /\ last'.chat = c
           /\ \E i \in 1..Len(orders) : orders[i].chat_id = c
           /\ Creatable(c, t)
           /\ \/ DateBefore(p[1].date, ThresholdDate)
              \/ financial_data["liquid_funds"] >= p[1].amount
           /\ (CreateOrder(c, t) \/ NewChatTitle(c, t)))
          => /\ Len(orders') = Len(orders) + 1
             /\ orders'[Len(orders')].chat_id = c
             /\ ActiveRows(orders', c) = {Len(orders')}
    ]_vars

\* a chat whose first order has ended has just been given a second order
C11_Witness ==
  /\ last.cmd \in {"create", "new_chat_title"}
  /\ last.result \in {"created", "imported"}
  /\ Len(orders) >= 2
  /\ orders[Len(orders)].chat_id = last.chat
  /\ \E i \in 1..(Len(orders) - 1) :
       orders[i].chat_id = last.chat /\ orders[i].state \in {"end", "breach_end"}

\* --------------------------------------------------------------------- C12
\* C12: the amount of every order is >= 0 in every state and never rises
\* after the creation: a step leaves it as it was or lowers it, and it is
\* lowered by a principal reduction (or a breach settlement) only.
C12_AmountNeverIncreases ==
  [][/\ \A i \in 1..Len(orders') : orders'[i].amount >= 0
     /\ Len(orders') >= Len(orders)
     /\ \A i \in 1..Len(orders) :
          /\ orders'[i].amount <= orders[i].amount
          /\ orders'[i].amount < orders[i].amount
             => /\ last'.cmd \in {"amount", "breach_end", "text"}
                /\ last'.result \in {"principal_reduced", "breach_ended"}
                /\ last'.chat = orders[i].chat_id
    ]_vars

\* an order has been reduced twice and what is left of it is not negative
C12_Witness ==
  /\ last.cmd = "amount" /\ last.result = "principal_reduced"
  /\ last.order # <<>>
  /\ \E i \in 1..Len(orders) :
       /\ orders[i].order_id = last.order[1].order_id
       /\ orders[i].amount >= 0
       /\ orders[i].amount < last.order[1].amount
       /\ last.order[1].amount < ParsedInfo[D1][1].amount

\* --------------------------------------------------------------------- C13
\* the names update_all_stats routes to the Daily table
DailyAllowed ==
  {"new_clients", "old_clients", "interest", "completed", "breach", "breach_end"}

\* C13: interest of amount x received in daily period D adds x to Global
\* interest and to interest of the Daily row of D (and of the Daily row of D
\* and the order's group); update_all_stats leaves the Daily table as it is
\* for the names valid and liquid_funds, whatever amount, count and group it
\* is given: it writes Daily for the names of the allow-list only (looked at
\* in every state a message can arrive in, on the step of the bare "+").
C13_DailyRouting ==
  [][/\ \A c \in Chats : \A text \in QuickTexts :
          (/\ last'.cmd = "amount" /\ last'.chat = c
           /\ last'.result \in {"interest_received", "interest_success"}
           /\ AmountOperation(c, text))
          => LET x == Float(SubSeq(text, 2, Len(text)))[1]
                 D == get_daily_period_date(clock)
             IN /\ financial_data'["interest"] = financial_data["interest"] + x
                /\ DailyVal(daily_data', <<D, NULL>>, "interest")
                     = DailyVal(daily_data, <<D, NULL>>, "interest") + x
                /\ last'.order # <<>>
                   => DailyVal(daily_data', <<D, last'.order[1].group_id>>, "interest")
                        = DailyVal(daily_data, <<D, last'.order[1].group_id>>, "interest") + x
     /\ (last'.cmd = "amount" /\ last'.chat = 1 /\ last'.result = "enter_amount")
        => \A f \in LogicalFields \ DailyAllowed :
          \A an \in {<<1000, 1>>, <<-1000, 0>>} :
            \A g \in {NULL, get_current_group(clock)} :
              update_all_stats(Ledger, get_daily_period_date(clock), f, an[1], an[2], g).day
                = daily_data
    ]_vars

\* interest has just been received on an order, before any Daily row of the
\* period existed for another reason than the order's creation
C13_Witness ==
  /\ last.cmd = "amount" /\ last.result = "interest_received"
  /\ last.order # <<>>
  /\ financial_data["interest"] > 0
  /\ \E i \in 1..Len(daily_data) :
       /\ daily_data[i].group_id = last.order[1].group_id
       /\ daily_data[i].interest = financial_data["interest"]

\* --------------------------------------------------------------------- C14
\* the counters kept both in Global and in Group, interest aside
OrderCounters ==
  {"completed_orders", "completed_amount", "breach_orders", "breach_amount",
   "breach_end_orders", "breach_end_amount", "new_clients", "new_clients_amount",
   "old_clients", "old_clients_amount"}

\* Global interest that no Group row holds
UngroupedInterest == financial_data["interest"] - GroupSum("interest")

\* C14 as stated: interest, completed, breach, breach_end, new_clients and
\* old_clients (orders and amount) of Global equal the sums over the Group rows.
C14_GlobalIsGroupSum ==
  \A f \in OrderCounters \cup {"interest"} : financial_data[f] = GroupSum(f)

\* C14 as amended: the ten counters of completed, breach, breach_end,
\* new_clients and old_clients of Global equal the sums over the Group rows in
\* every state; Global interest exceeds the Group sum by the interest received
\* in chats without active order: the difference moves on such a message
\* only, by the amount Global interest moves.
C14_GlobalIsGroupSumButInterest ==
  [][/\ \A f \in OrderCounters : financial_data'[f] = GroupSum(f)'
     /\ IF last'.cmd = "amount" /\ last'.result = "interest_success"
        THEN /\ last'.order = <<>>
             /\ UngroupedInterest' - UngroupedInterest
                  = financial_data'["interest"] - financial_data["interest"]
             /\ GroupSum("interest")' = GroupSum("interest")
        ELSE UngroupedInterest' = UngroupedInterest
    ]_vars

\* interest was received on an order and then in a chat without active order,
\* and an order was counted as a client
C14_Witness ==
  /\ last.cmd = "amount" /\ last.result = "interest_success"
  /\ GroupSum("interest") > 0
  /\ UngroupedInterest > 0
  /\ financial_data["new_clients"] + financial_data["old_clients"] > 0

\* --------------------------------------------------------------------- C15
\* the step is a BREACH to BREACH_END transition of chat c with settlement s,
\* by /breach_end with an argument or by the answer to its prompt
BreachSettled(c, s) ==
  /\ last'.cmd \in {"breach_end", "text"} /\ last'.chat = c
  /\ last'.result = "breach_ended"
  /\ \/ \E u \in Users, args \in BreachEndArgs :
          /\ Len(args) > 0 /\ Float(args[1]) = <<s>>
          /\ SetBreachEnd(u, c, args)
     \/ \E u \in Users, chat_type \in ChatTypes, text \in PlainTexts :
          /\ Float(text) = <<s>>
          /\ TextInput(u, chat_type, text)

\* the settlement amounts of the inputs
Settlements == {3000, 5000, 9000}

\* the row of the order the last command found
RowOf(order) == CHOOSE i \in 1..Len(orders) : orders[i].order_id = order.order_id

\* C15 as stated: a BREACH to BREACH_END transition with settlement s lowers
\* the stored amount of the order by s.
C15_SettlementReducesAmount ==
  [][\A c \in Chats : \A s \in Settlements :
       BreachSettled(c, s)
       => orders'[RowOf(last'.order[1])].amount
            = orders[RowOf(last'.order[1])].amount - s
    ]_vars

\* C15 as amended: a BREACH to BREACH_END transition with settlement s leaves
\* the stored amount of the order as it was, be s below, equal to or above
\* it; the order becomes BREACH_END, breach_end of Global grows by (s, 1) and
\* Global liquid_funds by s.
C15_SettlementKeepsAmount ==
  [][\A c \in Chats : \A s \in Settlements :
       BreachSettled(c, s)
       => LET i == RowOf(last'.order[1]) IN
          /\ orders[i].state = "breach" /\ orders[i].chat_id = c
          /\ orders'[i] = [orders[i] EXCEPT !.state = "breach_end"]
          /\ financial_data'["breach_end_amount"] = financial_data["breach_end_amount"] + s
          /\ financial_data'["breach_end_orders"] = financial_data["breach_end_orders"] + 1
          /\ financial_data'["liquid_funds"] = financial_data["liquid_funds"] + s
    ]_vars

\* an order in BREACH has just been ended with a settlement below its amount
\* and still holds its amount
C15_Witness ==
  /\ last.cmd \in {"breach_end", "text"} /\ last.result = "breach_ended"
  /\ last.order # <<>>
  /\ LET i == RowOf(last.order[1]) IN
     /\ orders[i].state = "breach_end"
     /\ orders[i].amount = last.order[1].amount
     /\ financial_data["liquid_funds"] - last.pre.liquid_funds > 0
     /\ financial_data["liquid_funds"] - last.pre.liquid_funds < orders[i].amount

\* ------------------------------------------------- decoding an order code
\* months 00..MaxMonth and days 00..MaxDayOfMonth are written into the codes
MaxMonth == 13
MaxDayOfMonth == 32

\* the two characters of a number below 100
TwoDigits(n) == <<DigitChars[(n \div 10) + 1], DigitChars[(n % 10) + 1]>>

\* the codes YYMMDDSSAA, bare and behind the marker of a new customer
CodeTitles ==
  LET codes == {TwoDigits(yy) \o TwoDigits(mm) \o TwoDigits(dd) \o <<"0", "1">> \o TwoDigits(aa) :
                  yy \in {0, 23, 24, 99}, mm \in 0..MaxMonth, dd \in 0..MaxDayOfMonth,
                  aa \in {0, 5, 99}}
  IN codes \cup {<<"A">> \o code : code \in codes}

\* a title is handed to parse_order_from_title
InitDecode ==
  /\ InitDatabase
  /\ inflight = [p \in Procs |-> Idle]
  /\ title_in \in CodeTitles
  /\ parsed_out = NotParsed

\* parsed_info = parse_order_from_title(title)
Decode ==
  /\ ~ parsed_out.done
  /\ parsed_out' = [done |-> TRUE, value |-> parse_order_from_title(title_in)]
  /\ UNCHANGED <<orders, financial_data, grouped_data, daily_data, user_data, clock,
                 steps, last, inflight, title_in>>

NextDecode == Decode

SpecDecode == InitDecode /\ [][NextDecode]_vars

\* --------------------------------------------------------------------- C16
\* the days of the months of a year 2000 + yy, yy in 0..99
MonthLengths(yy) ==
  <<31, IF yy % 4 = 0 THEN 29 ELSE 28, 31, 30, 31, 30, 31, 31, 30, 31, 30, 31>>

\* C16: for a code YYMMDDSSAA whose YYMMDD is a day of the calendar of year
\* 2000 + YY the decoding yields amount AA * 1000, date (2000 + YY, MM, DD)
\* and the returning customer for the bare code, the new customer for the
\* code behind 'A'; for a YYMMDD that is no day of the calendar it yields None.
C16_DecodeCode ==
  parsed_out.done
  => LET marked == title_in[1] = "A"
         code == IF marked THEN SubSeq(title_in, 2, 11) ELSE title_in
         yy == DecVal(SubSeq(code, 1, 2))
         mm == DecVal(SubSeq(code, 3, 4))
         dd == DecVal(SubSeq(code, 5, 6))
         aa == DecVal(SubSeq(code, 9, 10))
         real == mm >= 1 /\ mm <= 12 /\ dd >= 1 /\ dd <= MonthLengths(yy)[mm]
     IN IF real
        THEN /\ parsed_out.value # <<>>
             /\ parsed_out.value[1].amount = aa * 1000
             /\ parsed_out.value[1].date = <<2000 + yy, mm, dd>>
             /\ parsed_out.value[1].customer = (IF marked THEN "A" ELSE "B")
        ELSE parsed_out.value = <<>>

\* the code of 29 February 2024 behind 'A' has been decoded as a new
\* customer's order of 99000
C16_Witness ==
  /\ parsed_out.done
  /\ title_in = <<"A", "2", "4", "0", "2", "2", "9", "0", "1", "9", "9">>
  /\ parsed_out.value # <<>>
  /\ parsed_out.value[1].customer = "A"
  /\ parsed_out.value[1].date = <<2024, 2, 29>>
  /\ parsed_out.value[1].amount = 99000

\* --------------------------------------------------------------------- C17
\* the title is a 10-digit code or 'A' and a 10-digit code, and nothing else
ExactCode(t) ==
  \/ Len(t) = 10 /\ \A i \in 1..10 : t[i] \in Digits
  \/ Len(t) = 11 /\ t[1] = "A" /\ \A i \in 2..11 : t[i] \in Digits

\* the title begins with a 10-digit code or with 'A' and a 10-digit code
BeginsWithCode(t) ==
  \E n \in {10, 11} : Len(t) >= n /\ ExactCode(SubSeq(t, 1, n))

\* the step handles title t for a new order of chat c: /create, or a title
\* change in a chat without active order
CreationAsked(c, t) ==
  /\ last'.cmd \in {"create", "new_chat_title"} /\ last'.chat = c
  /\ \/ CreateOrder(c, t)
     \/ get_order_by_chat_id(orders, c) = <<>> /\ NewChatTitle(c, t)

\* C17 as stated: a title that is neither a 10-digit code nor 'A' and a
\* 10-digit code decodes to None, and a creation asked with it adds no order
\* and changes no ledger.
C17_OnlyExactCodesDecode ==
  [][\A c \in Chats : \A t \in TitlesOf(c) :
       (~ ExactCode(t) /\ CreationAsked(c, t))
       => /\ ParsedInfo[t] = <<>>
          /\ TablesUnchanged
    ]_vars

\* C17 as amended: a title that does not begin with a 10-digit code or with
\* 'A' and a 10-digit code decodes to None, and a creation asked with it (by
\* /create, or by a title change in a chat without active order) adds no order
\* and changes no ledger; a title that begins with the code of a real date
\* decodes whatever follows the code.
C17_OnlyCodePrefixesDecode ==
  [][/\ \A c \in Chats : \A t \in TitlesOf(c) :
          (last'.cmd \in {"create", "new_chat_title"} /\ ~ BeginsWithCode(t)
           /\ CreationAsked(c, t))
          => /\ ParsedInfo[t] = <<>>
             /\ last'.result = "invalid_title"
             /\ TablesUnchanged
     /\ \A t \in Titles :
          (last'.cmd = "create" /\ BeginsWithCode(t) /\ ~ ExactCode(t))
          => /\ ParsedInfo[t] # <<>>
             /\ ParsedInfo[t] = ParsedInfo[SubSeq(t, 1, Len(t) - 1)]
    ]_vars

\* a creation has just been refused for its title in a chat without order,
\* while the other chat holds an order created in BREACH from a code followed
\* by the cross mark
C17_Witness ==
  /\ last.cmd \in {"create", "new_chat_title"} /\ last.result = "invalid_title"
  /\ last.order = <<>>
  /\ \A i \in 1..Len(orders) : orders[i].chat_id # last.chat
  /\ \E i \in 1..Len(orders) :
       /\ orders[i].state = "breach"
       /\ ExactCode(orders[i].order_id)

\* --------------------------------------------------------------------- C18
\* C18: the updates of an order's amount and state by chat write the rows of
\* that chat that are neither END nor BREACH_END, and of these the one column
\* only; rows in END or BREACH_END and rows of another chat are left as they
\* are, and for a chat without active order the update reports failure and
\* leaves the table as it is. No step of the system changes a row that was
\* terminal or that belongs to another chat than the one the step is for.
C18_UpdatesTouchActiveRowOnly ==
  [][/\ \A i \in 1..Len(orders) :
          orders'[i] # orders[i]
          => /\ orders[i].chat_id = last'.chat
             /\ orders[i].state \notin {"end", "breach_end"}
     /\ \A c \in Chats :
          LET active == {i \in 1..Len(orders) :
                           orders[i].chat_id = c /\ orders[i].state \notin {"end", "breach_end"}}
              byAmount == update_order_amount(orders, c, 1000)
              byState == update_order_state(orders, c, "overdue")
          IN /\ Len(byAmount) = Len(orders) /\ Len(byState) = Len(orders)
             /\ \A i \in 1..Len(orders) :
                  IF i \in active
                  THEN /\ byAmount[i] = [orders[i] EXCEPT !.amount = 1000]
                       /\ byState[i] = [orders[i] EXCEPT !.state = "overdue"]
                  ELSE byAmount[i] = orders[i] /\ byState[i] = orders[i]
             /\ update_order_rowcount(orders, c) <=> active # {}
             /\ ~ update_order_rowcount(orders, c)
                => byAmount = orders /\ byState = orders
    ]_vars

\* the active order of a chat has just been set to OVERDUE while an earlier
\* order of the chat stays in END
C18_Witness ==
  /\ last.cmd = "overdue" /\ last.result = "status_updated"
  /\ \E i, j \in 1..Len(orders) :
       /\ orders[i].chat_id = last.chat /\ orders[i].state = "end"
       /\ orders[j].chat_id = last.chat /\ orders[j].state = "overdue"

\* --------------------------------------------------------------------- C19
\* the replies that tell the user a transition to END or BREACH_END was done
DoneReplies == {"order_completed", "breach_ended"}

\* C19: a step that moves an order to END or BREACH_END while one of its
\* ledger writes fails does not report the transition as done.
C19_LedgerFailureReported ==
  [][\A i \in 1..Len(orders) :
       (/\ orders[i].state \notin {"end", "breach_end"}
        /\ orders'[i].state \in {"end", "breach_end"}
        /\ last'.failed)
       => last'.result \notin DoneReplies
    ]_vars

\* ------------------------------------------ set_end, one await at a time
\* Two updates may be in flight (Procs); a handler gives way at each await.
\* Each call of db_operations is one transaction of its own.
AllIdle == \A p \in Procs : inflight[p].pc = "idle"

\* order = await db_operations.get_order_by_chat_id(chat_id) and the two
\* checks of set_end (main.py:1039-1048)
EndRead(p, c) ==
  LET order == get_order_by_chat_id(orders, c)
      result == IF order = <<>> THEN "no_active_order"
                ELSE IF order[1].state \notin {"normal", "overdue"} THEN "wrong_state"
                ELSE "read"
  IN /\ Taken
     /\ inflight[p].pc = "idle"
     /\ inflight' = [inflight EXCEPT ![p] =
                       IF result = "read"
                       THEN [Idle EXCEPT !.pc = "read", !.chat_id = c, !.order = order]
                       ELSE Idle]
     /\ last' = Seen("end", c, [result |-> result, L |-> Ledger])
     /\ UNCHANGED <<orders, financial_data, grouped_data, daily_data, user_data, clock,
                    decode_vars>>

\* await db_operations.update_order_state(chat_id, 'end'), its result dropped
\* (main.py:1051)
EndWriteState(p) ==
  /\ inflight[p].pc = "read"
  /\ orders' = update_order_state(orders, inflight[p].chat_id, "end")
  /\ inflight' = [inflight EXCEPT ![p].pc = "written"]
  /\ UNCHANGED <<financial_data, grouped_data, daily_data, user_data, clock, steps, last,
                 decode_vars>>

\* await update_all_stats('valid', -amount, -1, group_id) (main.py:1056)
EndValid(p) ==
  LET order == inflight[p].order[1]
      L1 == update_all_stats(Ledger, get_daily_period_date(clock), "valid",
                             0 - order.amount, -1, order.group_id)
  IN /\ inflight[p].pc = "written"
     /\ financial_data' = L1.fin /\ grouped_data' = L1.grp /\ daily_data' = L1.day
     /\ inflight' = [inflight EXCEPT ![p].pc = "valid_moved"]
     /\ UNCHANGED <<orders, user_data, clock, steps, last, decode_vars>>

\* await update_all_stats('completed', amount, 1, group_id) (main.py:1059)
EndCompleted(p) ==
  LET order == inflight[p].order[1]
      L1 == update_all_stats(Ledger, get_daily_period_date(clock), "completed",
                             order.amount, 1, order.group_id)
  IN /\ inflight[p].pc = "valid_moved"
     /\ financial_data' = L1.fin /\ grouped_data' = L1.grp /\ daily_data' = L1.day
     /\ inflight' = [inflight EXCEPT ![p].pc = "completed_moved"]
     /\ UNCHANGED <<orders, user_data, clock, steps, last, decode_vars>>

\* await update_liquid_capital(amount) and the reply (main.py:1062-1072)
EndLiquid(p) ==
  LET order == inflight[p].order[1]
      L1 == update_liquid_capital(Ledger, get_daily_period_date(clock), order.amount)
  IN /\ inflight[p].pc = "completed_moved"
     /\ financial_data' = L1.fin /\ grouped_data' = L1.grp /\ daily_data' = L1.day
     /\ inflight' = [inflight EXCEPT ![p] = Idle]
     /\ last' = [cmd |-> "end", chat |-> inflight[p].chat_id, result |-> "order_completed",
                 failed |-> L1.failed, order |-> inflight[p].order,
                 pre |-> Before]
     /\ UNCHANGED <<orders, user_data, clock, steps, decode_vars>>

NextConcurrent ==
  \/ \E c \in Chats : \E t \in {D1, DH} : CreateOrder(c, t)
  \/ \E c \in Chats : SetOverdue(c)
  \/ \E p \in Procs, c \in Chats : EndRead(p, c)
  \/ \E p \in Procs : EndWriteState(p)
  \/ \E p \in Procs : EndValid(p)
  \/ \E p \in Procs : EndCompleted(p)
  \/ \E p \in Procs : EndLiquid(p)

SpecConcurrent == Init /\ [][NextConcurrent]_vars

DbCall(table, date, group_id, field, amount) ==
  [table |-> table, date |-> date, group_id |-> group_id, field |-> field,
   amount |-> amount]

\* the calls update_all_stats awaits, in its order (main.py:244-298)
stats_calls(date, field, amount, count, group_id) ==
  (IF amount # 0
   THEN <<DbCall("fin", 0, NULL, global_amount_field(field), amount)>> ELSE <<>>)
  \o (IF count # 0
      THEN <<DbCall("fin", 0, NULL, global_count_field(field), count)>> ELSE <<>>)
  \o (IF is_daily_field(field) /\ amount # 0
      THEN <<DbCall("day", date, NULL, daily_amount_field(field), amount)>> ELSE <<>>)
  \o (IF is_daily_field(field) /\ count # 0
      THEN <<DbCall("day", date, NULL, daily_count_field(field), count)>> ELSE <<>>)
  \o (IF is_daily_field(field) /\ group_id # NULL /\ amount # 0
      THEN <<DbCall("day", date, group_id, daily_amount_field(field), amount)>> ELSE <<>>)
  \o (IF is_daily_field(field) /\ group_id # NULL /\ count # 0
      THEN <<DbCall("day", date, group_id, daily_count_field(field), count)>> ELSE <<>>)
  \o (IF group_id # NULL /\ amount # 0
      THEN <<DbCall("grp", 0, group_id, global_amount_field(field), amount)>> ELSE <<>>)
  \o (IF group_id # NULL /\ count # 0
      THEN <<DbCall("grp", 0, group_id, global_count_field(field), count)>> ELSE <<>>)

\* the calls update_liquid_capital awaits (main.py:227-231)
liquid_calls(date, amount) ==
  <<DbCall("fin", 0, NULL, "liquid_funds", amount),
    DbCall("day", date, NULL, "liquid_flow", amount)>>

\* the interest message of the concurrent runs
InterestTexts == {<<"+", "1", "0", "0">>}

\* the rows of daily_data a call's WHERE clause matches
DailyHits(dd, call) ==
  {i \in 1..Len(dd) : dd[i].date = call.date /\ dd[i].group_id = call.group_id}

\* the row of the call's key is in its table
RowExists(call) ==
  CASE call.table = "fin" -> TRUE
    [] call.table = "grp" -> call.group_id \in DOMAIN grouped_data
    [] call.table = "day" -> DailyHits(daily_data, call) # {}

\* row_dict.get(field, 0) on the row fetchone() returns
RowValue(call) ==
  CASE call.table = "fin" ->
         IF call.field \in FinColumns THEN financial_data[call.field] ELSE 0
    [] call.table = "grp" ->
         IF call.field \in FinColumns THEN grouped_data[call.group_id][call.field] ELSE 0
    [] call.table = "day" ->
         IF call.field \in DailyColumns
         THEN daily_data[SetMin(DailyHits(daily_data, call))][call.field] ELSE 0

\* the worker goes on to its next call, or its handler replies and ends
CallDone(p) ==
  inflight' = [inflight EXCEPT ![p] =
                 IF Len(inflight[p].todo) > 1
                 THEN [inflight[p] EXCEPT !.pc = "call", !.todo = Tail(@), !.cur = <<>>]
                 ELSE Idle]

\* handle_amount_operation on an interest message, to its first ledger call
\* (main.py:744-776, process_interest main.py:900-914)
InterestBegin(p, c, text) ==
  LET order == get_order_by_chat_id(orders, c)
      amount == Float(SubSeq(text, 2, Len(text)))[1]
      date == get_daily_period_date(clock)
      group_id == IF order = <<>> THEN NULL ELSE order[1].group_id
  IN /\ Taken
     /\ inflight[p].pc = "idle"
     /\ inflight' = [inflight EXCEPT ![p] =
                       [Idle EXCEPT !.pc = "call", !.chat_id = c, !.order = order,
                                    !.todo = stats_calls(date, "interest", amount, 0, group_id)
                                             \o liquid_calls(date, amount)]]
     /\ last' = Seen("amount", c, [result |-> "interest_begun", L |-> Ledger])
     /\ UNCHANGED <<orders, financial_data, grouped_data, daily_data, user_data, clock,
                    decode_vars>>

\* the SELECT of the call and row = cursor.fetchone()
DbSelect(p) ==
  LET call == inflight[p].todo[1]
  IN /\ inflight[p].pc = "call"
     /\ inflight' = [inflight EXCEPT ![p] =
                       [@ EXCEPT !.pc = IF RowExists(call) THEN "selected" ELSE "missing",
                                 !.cur = <<[exists |-> RowExists(call),
                                            current_value |-> IF RowExists(call)
                                                              THEN RowValue(call) ELSE 0]>>]]
     /\ UNCHANGED <<orders, financial_data, grouped_data, daily_data, user_data, clock,
                    steps, last, decode_vars>>

\* `if not row`: the INSERT of a zero row and its commit; group_id is UNIQUE in
\* grouped_data and (date, group_id) in daily_data, where a NULL group_id
\* never collides; on a collision the call returns False
DbInsert(p) ==
  LET call == inflight[p].todo[1]
      collides == RowExists(call) /\ ~ (call.table = "day" /\ call.group_id = NULL)
  IN /\ inflight[p].pc = "missing"
     /\ IF collides
        THEN /\ CallDone(p)
             /\ UNCHANGED <<grouped_data, daily_data>>
        ELSE /\ inflight' = [inflight EXCEPT ![p].pc = "selected"]
             /\ IF call.table = "grp"
                THEN /\ grouped_data' =
                          [g \in DOMAIN grouped_data \cup {call.group_id} |->
                             IF g = call.group_id THEN ZeroFin ELSE grouped_data[g]]
                     /\ UNCHANGED daily_data
                ELSE /\ daily_data' = Append(daily_data, ZeroDaily(call.date, call.group_id))
                     /\ UNCHANGED grouped_data
     /\ UNCHANGED <<orders, financial_data, user_data, clock, steps, last, decode_vars>>

\* new_value = current_value + amount, the UPDATE of the rows of the key and
\* its commit; a field that is no column makes the call return False
DbUpdate(p) ==
  LET call == inflight[p].todo[1]
      new_value == inflight[p].cur[1].current_value + call.amount
  IN /\ inflight[p].pc = "selected"
     /\ CallDone(p)
     /\ financial_data' =
          IF call.table = "fin" /\ call.field \in FinColumns
          THEN [financial_data EXCEPT ![call.field] = new_value] ELSE financial_data
     /\ grouped_data' =
          IF call.table = "grp" /\ call.field \in FinColumns
             /\ call.group_id \in DOMAIN grouped_data
          THEN [grouped_data EXCEPT ![call.group_id][call.field] = new_value]
          ELSE grouped_data
     /\ daily_data' =
          IF call.table = "day" /\ call.field \in DailyColumns
          THEN [i \in 1..Len(daily_data) |->
                  IF i \in DailyHits(daily_data, call)
                  THEN [daily_data[i] EXCEPT ![call.field] = new_value]
                  ELSE daily_data[i]]
          ELSE daily_data
     /\ UNCHANGED <<orders, user_data, clock, steps, last, decode_vars>>

NextLedgerRace ==
  \/ \E c \in Chats : CreateOrder(c, IF c = 1 THEN DH ELSE D1)
  \/ \E p \in Procs, c \in Chats, text \in InterestTexts : InterestBegin(p, c, text)
  \/ \E p \in Procs : DbSelect(p)
  \/ \E p \in Procs : DbInsert(p)
  \/ \E p \in Procs : DbUpdate(p)

SpecLedgerRace == Init /\ [][NextLedgerRace]_vars

C22_FirstReferenceAtomic ==
  /\ \A p \in Procs :
       (inflight[p].pc = "selected" /\ ~ inflight[p].cur[1].exists)
       => ~ RowExists(inflight[p].todo[1])
  /\ \A i, j \in 1..Len(daily_data) :
       (daily_data[i].date = daily_data[j].date
        /\ daily_data[i].group_id = daily_data[j].group_id) => i = j

\* ------------------------ try_create_order_from_title, one await at a time
\* the title each chat is given in the concurrent creations
BigTitleOf(c) == IF c = 1 THEN DBig ELSE <<"A">> \o DBig

\* /create to the balance check: parse_order_from_title, get_order_by_chat_id,
\* get_financial_data and the comparison (main.py:453-503); the worker keeps
\* the order it is about to insert and the balance it has read
CreateCheck(p, c, title) ==
  LET parsed_info == ParsedInfo[title]
      existing_order == get_order_by_chat_id(orders, c)
      liquid_funds == financial_data["liquid_funds"]
      new_order == [order_id |-> parsed_info[1].order_id, group_id |-> DEFAULT_GROUP,
                    chat_id |-> c, date |-> parsed_info[1].date,
                    group |-> get_current_group(clock),
                    customer |-> parsed_info[1].customer,
                    amount |-> parsed_info[1].amount,
                    state |-> get_state_from_title(title)]
      result == IF parsed_info = <<>> THEN "invalid_title"
                ELSE IF existing_order # <<>> THEN "order_exists"
                ELSE IF ~ is_historical(parsed_info[1].date)
                        /\ liquid_funds < parsed_info[1].amount
                THEN "insufficient_funds"
                ELSE "checked"
  IN /\ Taken
     /\ inflight[p].pc = "idle"
     /\ inflight' = [inflight EXCEPT ![p] =
                       IF result = "checked"
                       THEN [Idle EXCEPT !.pc = "checked", !.chat_id = c,
                                         !.order = <<new_order>>,
                                         !.cur = <<[liquid_funds |-> liquid_funds]>>]
                       ELSE Idle]
     /\ last' = Seen("create", c, [result |-> result, L |-> Ledger])
     /\ UNCHANGED <<orders, financial_data, grouped_data, daily_data, user_data, clock,
                    decode_vars>>

\* a creation that reads the balance again before it inserts the order
CreateInsertRevalidating(p) ==
  LET new_order == inflight[p].order[1]
      accepted == /\ create_order_ok(orders, new_order)
                  /\ \/ is_historical(new_order.date)
                     \/ financial_data["liquid_funds"] >= new_order.amount
  IN /\ inflight[p].pc = "checked"
     /\ orders' = IF accepted THEN create_order(orders, new_order) ELSE orders
     /\ inflight' = [inflight EXCEPT ![p] =
                       IF accepted THEN [@ EXCEPT !.pc = "inserted"] ELSE Idle]
     /\ UNCHANGED <<financial_data, grouped_data, daily_data, user_data, clock, steps, last,
                    decode_vars>>

\* await db_operations.create_order(new_order) (main.py:523-526)
CreateInsert(p) ==
  LET new_order == inflight[p].order[1]
      ok == create_order_ok(orders, new_order)
  IN /\ inflight[p].pc = "checked"
     /\ orders' = IF ok THEN create_order(orders, new_order) ELSE orders
     /\ inflight' = [inflight EXCEPT ![p] = IF ok THEN [@ EXCEPT !.pc = "inserted"] ELSE Idle]
     /\ UNCHANGED <<financial_data, grouped_data, daily_data, user_data, clock, steps, last,
                    decode_vars>>

\* the statistics, the debit and the reply (main.py:528-577)
CreateLedger(p) ==
  LET new_order == inflight[p].order[1]
      amount == new_order.amount
      group_id == new_order.group_id
      date == get_daily_period_date(clock)
      L1 == IF new_order.state = "breach"
            THEN update_all_stats(Ledger, date, "breach", amount, 1, group_id)
            ELSE update_all_stats(Ledger, date, "valid", amount, 1, group_id)
      L2 == update_liquid_capital(L1, date, 0 - amount)
      L3 == update_all_stats(L2, date, client_field(new_order.customer), amount, 1, group_id)
      L4 == IF is_historical(new_order.date) THEN L1 ELSE L3
  IN /\ inflight[p].pc = "inserted"
     /\ financial_data' = L4.fin /\ grouped_data' = L4.grp /\ daily_data' = L4.day
     /\ inflight' = [inflight EXCEPT ![p] = Idle]
     /\ last' = [cmd |-> "create", chat |-> inflight[p].chat_id,
                 result |-> IF is_historical(new_order.date) THEN "imported" ELSE "created",
                 failed |-> L4.failed, order |-> <<>>,
                 pre |-> Before]
     /\ UNCHANGED <<orders, user_data, clock, steps, decode_vars>>

NextCreateRace ==
  \/ \E p \in Procs, c \in Chats : \E t \in {BigTitleOf(c), DH} : CreateCheck(p, c, t)
  \/ \E p \in Procs : CreateInsert(p)
  \/ \E p \in Procs : CreateLedger(p)
  \/ \E c \in Chats : SetEnd(c)

SpecCreateRace == Init /\ [][NextCreateRace]_vars

C24_BalanceCheck ==
  [][\A c \in Chats : \A t \in TitlesOf(c) :
       LET p == ParsedInfo[t] IN
       (/\ last'.cmd \in {"create", "new_chat_title"} /\ last'.chat = c
        /\ p # <<>>
        /\ get_order_by_chat_id(orders, c) = <<>>
        /\ ~ DateBefore(p[1].date, ThresholdDate)
        /\ (CreateOrder(c, t) \/ NewChatTitle(c, t)))
       => /\ (last'.result = "insufficient_funds")
                <=> (financial_data["liquid_funds"] < p[1].amount)
          /\ last'.result \in {"insufficient_funds", "duplicate", "created"}
          /\ last'.result = "created"
             => /\ Len(orders') = Len(orders) + 1
                /\ financial_data'["liquid_funds"]
                     = financial_data["liquid_funds"] - p[1].amount
                /\ financial_data'["liquid_funds"] >= 0
    ]_vars

\* an order whose amount is the whole balance has just been created and
\* liquid_funds is zero
C24_Witness ==
  /\ last.cmd \in {"create", "new_chat_title"} /\ last.result = "created"
  /\ Len(orders) > 0
  /\ last.pre.liquid_funds = orders[Len(orders)].amount
  /\ financial_data["liquid_funds"] = 0

\* --------------------------------------------------------------------- C25
\* the value of a column in the daily rows of a key, 0 without row or column
DailyColumnValue(dd, date, group_id, field) ==
  LET hits == {i \in 1..Len(dd) : dd[i].date = date /\ dd[i].group_id = group_id}
  IN IF hits = {} \/ field \notin DOMAIN dd[SetMin(hits)] THEN 0
     ELSE dd[SetMin(hits)][field]

\* C25: every command that changes Global liquid_funds by x (creation debit,
\* END, principal reduction, breach settlement, interest, adjustment) changes
\* liquid_flow of the global Daily row of the current period by the same x.
C25_LiquidFlowFollowsFunds ==
  [][LET date == get_daily_period_date(clock)
         x == financial_data'["liquid_funds"] - financial_data["liquid_funds"]
     IN (x # 0 /\ clock' = clock)
        => DailyColumnValue(daily_data', date, NULL, "liquid_flow")
             - DailyColumnValue(daily_data, date, NULL, "liquid_flow") = x
    ]_vars

\* --------------------------------------------------------------------- C26
\* C26 as stated: every newly created order starts in NORMAL or BREACH, none
\* in OVERDUE, END or BREACH_END.
C26_CreatedNormalOrBreach ==
  [][Len(orders') > Len(orders)
       => orders'[Len(orders')].state \in {"normal", "breach"}
    ]_vars

\* C26 (amended): every newly created order starts in NORMAL, OVERDUE or
\* BREACH, in BREACH exactly when its title carries the breach mark; none is
\* created in END or BREACH_END.
C26_CreatedActive ==
  [][\A c \in Chats : \A t \in TitlesOf(c) :
       (/\ last'.cmd \in {"create", "new_chat_title"} /\ last'.chat = c
        /\ Len(orders') > Len(orders)
        /\ (CreateOrder(c, t) \/ NewChatTitle(c, t)))
       => /\ orders'[Len(orders')].state \in {"normal", "overdue", "breach"}
          /\ (orders'[Len(orders')].state = "breach") <=> Contains(t, "CROSS")
          /\ (orders'[Len(orders')].state = "overdue")
               => (Contains(t, "BANG") /\ financial_data'["valid_orders"]
                                            = financial_data["valid_orders"] + 1)
    ]_vars

\* an order has just been created in OVERDUE from a title with the overdue mark
C26_Witness ==
  /\ last.cmd \in {"create", "new_chat_title"} /\ last.result = "created"
  /\ Len(orders) > 0
  /\ orders[Len(orders)].state = "overdue"
  /\ orders[Len(orders)].chat_id = last.chat

\* --------------------------------------------------------------------- C27
\* amount and count 1 leave valid for breach
BreachDeltas(amount) ==
  [valid_amount |-> 0 - amount, valid_orders |-> -1,
   breach_amount |-> amount, breach_orders |-> 1]

\* the active order of chat c has gone to BREACH and its amount and a count of
\* 1 have moved from valid to breach in Global and in its Group
MovedToBreach(c) ==
  LET order == get_order_by_chat_id(orders, c)[1]
      after == get_order_by_chat_id(orders', c)
  IN /\ after # <<>>
     /\ after[1] = [order EXCEPT !.state = "breach"]
     /\ Moved(financial_data, financial_data', BreachDeltas(order.amount))
     /\ GroupMoved(order.group_id, BreachDeltas(order.amount))

\* the breach command or a title with the breach mark reaches the active
\* order of chat c, which is in NORMAL or OVERDUE
BreachAsked(c) ==
  /\ last'.chat = c
  /\ get_order_by_chat_id(orders, c) # <<>>
  /\ get_order_by_chat_id(orders, c)[1].state \in {"normal", "overdue"}
  /\ \/ last'.cmd = "breach" /\ SetBreach(c)
     \/ /\ last'.cmd = "new_chat_title"
        /\ \E t \in TitlesOf(c) : Contains(t, "CROSS") /\ NewChatTitle(c, t)

\* C27 as stated: the transition to BREACH is accepted from NORMAL and from
\* OVERDUE by the breach command and by the title change alike, and moves the
\* order's amount and a count of 1 from valid to breach in Global and Group.
C27_BreachFromValid ==
  [][\A c \in Chats : BreachAsked(c) => MovedToBreach(c)]_vars

\* C27 (amended): the title change takes an order to BREACH from NORMAL and
\* from OVERDUE, the breach command from OVERDUE only; each accepted
\* transition moves the order's current amount and a count of 1 from valid to
\* breach in Global and in the order's Group, and the breach command on a
\* NORMAL order is refused and changes nothing.
C27_BreachFromValidByTitle ==
  [][\A c \in Chats :
       BreachAsked(c)
       => IF last'.cmd = "breach" /\ get_order_by_chat_id(orders, c)[1].state = "normal"
          THEN last'.result = "wrong_state" /\ TablesUnchanged
          ELSE MovedToBreach(c)
    ]_vars

\* a title with the breach mark has just taken a NORMAL order to BREACH
C27_Witness ==
  /\ last.cmd = "new_chat_title" /\ last.result = "moved_to_breach"
  /\ last.order # <<>> /\ last.order[1].state = "normal"
  /\ get_order_by_chat_id(orders, last.chat) # <<>>
  /\ get_order_by_chat_id(orders, last.chat)[1].state = "breach"
  /\ financial_data["breach_orders"] = 1

\* --------------------------------------------------------------------- C28
RoundTripFields == {"valid_orders", "valid_amount", "breach_orders", "breach_amount"}

\* the command before this one counted its breach in the period of now
SamePeriod ==
  LET key == <<get_daily_period_date(clock), NULL>>
  IN DailyVal(daily_data, key, "breach_orders")
       = DailyVal(last.pre.day, key, "breach_orders") + 1

\* the next command after a move of chat c's order to BREACH is a title change
\* that takes it back to NORMAL or OVERDUE
RoundTripEnds(c) ==
  /\ last.result \in {"moved_to_breach", "marked_breach"} /\ last.chat = c
  /\ last.order # <<>> /\ last.order[1].state \in {"normal", "overdue"}
  /\ last'.cmd = "new_chat_title" /\ last'.chat = c
  /\ \E t \in TitlesOf(c) : ~ Contains(t, "CROSS") /\ NewChatTitle(c, t)

\* the four fields are in Global, the Group and the Daily rows what they were
\* before the move to BREACH
RoundTripRestores(c) ==
  /\ \A f \in RoundTripFields :
       /\ financial_data'[f] = last.pre.fin[f]
       /\ GroupVal(grouped_data', last.order[1].group_id, f)
            = GroupVal(last.pre.grp, last.order[1].group_id, f)
  /\ \A key \in DailyKeys(daily_data') :
       \A f \in RoundTripFields \cap DailyColumns :
         DailyVal(daily_data', key, f) = DailyVal(last.pre.day, key, f)

\* C28 as stated: an order moved from NORMAL or OVERDUE to BREACH and, by the
\* very next command, back to NORMAL or OVERDUE leaves valid_orders,
\* valid_amount, breach_orders and breach_amount in Global, in the order's
\* Group and in the Daily rows as they were before the first move.
C28_BreachRoundTripAnyPeriod ==
  [][\A c \in Chats : RoundTripEnds(c) => RoundTripRestores(c)]_vars

\* C28 (amended): an order moved from NORMAL or OVERDUE to BREACH and, by the
\* very next command of the same period, back to NORMAL or OVERDUE leaves valid_orders, valid_amount,
\* breach_orders and breach_amount in Global, in the order's Group and in the
\* Daily rows of the period as they were before the first move.
C28_BreachRoundTrip ==
  [][\A c \in Chats :
       (SamePeriod /\ RoundTripEnds(c))
       => /\ last'.result = "moved_to_valid"
          /\ get_order_by_chat_id(orders', c) # <<>>
          /\ get_order_by_chat_id(orders', c)[1].state \in {"normal", "overdue"}
          /\ get_order_by_chat_id(orders', c)[1].amount = last.order[1].amount
          /\ RoundTripRestores(c)
    ]_vars

\* an order created in an earlier period has gone to BREACH and back within
\* the current period: the period's global Daily row counts no creation, its
\* breach count was 1 before the last command, a title change that took the
\* order out of BREACH, and is 0 again
C28_Witness ==
  LET key == <<get_daily_period_date(clock), NULL>> IN
  /\ last.cmd = "new_chat_title" /\ last.result = "moved_to_valid"
  /\ last.order # <<>> /\ last.order[1].state = "breach"
  /\ Len(orders) = 1 /\ ~ DateBefore(orders[1].date, ThresholdDate)
  /\ key \in DailyKeys(daily_data)
  /\ DailyVal(daily_data, key, "new_clients") = 0
  /\ DailyVal(daily_data, key, "old_clients") = 0
  /\ DailyVal(last.pre.day, key, "breach_orders") = 1
  /\ DailyVal(daily_data, key, "breach_orders") = 0
  /\ financial_data["valid_orders"] = 1 /\ financial_data["breach_orders"] = 0

\* --------------------------------------------------------------------- C29
\* a command or a title change asks for the state target of the active order
\* of chat c, which is in the other of NORMAL and OVERDUE
ValidStateAsked(c, target) ==
  /\ last'.chat = c
  /\ get_order_by_chat_id(orders, c) # <<>>
  /\ get_order_by_chat_id(orders, c)[1].state \in {"normal", "overdue"} \ {target}
  /\ \/ last'.cmd = "overdue" /\ target = "overdue" /\ SetOverdue(c)
     \/ last'.cmd = "normal" /\ target = "normal" /\ SetNormal(c)
     \/ /\ last'.cmd = "new_chat_title"
        /\ \E t \in TitlesOf(c) :
             /\ ~ Contains(t, "CROSS")
             /\ Contains(t, "BANG") <=> target = "overdue"
             /\ NewChatTitle(c, t)

\* C29: NORMAL to OVERDUE and OVERDUE to NORMAL, by command or by title
\* change, change the state of the order and nothing else: its amount and its
\* other fields, the other orders and every value of the Global, Group and
\* Daily ledgers stay as they were.
C29_ValidStatesFrame ==
  [][\A c \in Chats : \A target \in {"normal", "overdue"} :
       ValidStateAsked(c, target)
       => /\ last'.result \in {"status_updated", "state_changed"}
          /\ LedgersUnchanged
          /\ \A i \in 1..Len(orders) :
               orders'[i] = IF IsActiveRow(orders[i], c)
                            THEN [orders[i] EXCEPT !.state = target]
                            ELSE orders[i]
          /\ Len(orders') = Len(orders)
    ]_vars

\* an order counted in the ledgers has just gone back from OVERDUE to NORMAL
\* by command
C29_Witness ==
  /\ last.cmd = "normal" /\ last.result = "status_updated"
  /\ last.order # <<>> /\ last.order[1].state = "overdue"
  /\ get_order_by_chat_id(orders, last.chat) # <<>>
  /\ get_order_by_chat_id(orders, last.chat)[1].state = "normal"
  /\ financial_data["valid_orders"] = 1
  /\ financial_data["valid_amount"] = last.order[1].amount

\* --------------------------------------------------------------------- C30
\* a settlement of s > 0 is asked for the order of chat c, by /breach_end with
\* the amount or by the amount typed after the prompt
SettlementAsked(c, s) ==
  /\ last'.cmd \in {"breach_end", "text"} /\ last'.chat = c
  /\ \/ \E u \in Users, args \in BreachEndArgs :
          /\ Len(args) > 0 /\ Float(args[1]) = <<s>>
          /\ SetBreachEnd(u, c, args)
     \/ \E u \in Users, chat_type \in ChatTypes, text \in PlainTexts :
          /\ user_data[u].state = "WAITING_BREACH_END_AMOUNT"
          /\ user_data[u].breach_end_chat_id = c
          /\ Float(text) = <<s>>
          /\ TextInput(u, chat_type, text)

BreachEndDeltas(s) == [breach_end_amount |-> s, breach_end_orders |-> 1]

\* C30: a settlement of s > 0 is accepted only for an order in BREACH; it
\* sets the order to BREACH_END, adds s to breach_end_amount and 1 to
\* breach_end_orders in Global, in the order's Group and in the two Daily rows
\* of the period, and adds s to Global liquid_funds, be s below, equal to or
\* above the order's amount.
C30_BreachSettlement ==
  [][\A c \in Chats : \A s \in Settlements :
       SettlementAsked(c, s)
       => LET order == get_order_by_chat_id(orders, c)
              date == get_daily_period_date(clock)
          IN IF order # <<>> /\ order[1].state = "breach"
             THEN /\ last'.result = "breach_ended"
                  /\ orders' = [i \in 1..Len(orders) |->
                                  IF orders[i] = order[1]
                                  THEN [orders[i] EXCEPT !.state = "breach_end"]
                                  ELSE orders[i]]
                  /\ Moved(financial_data, financial_data',
                           BreachEndDeltas(s) @@ [liquid_funds |-> s])
                  /\ GroupMoved(order[1].group_id, BreachEndDeltas(s))
                  /\ \A g \in {NULL, order[1].group_id} :
                       \A f \in DOMAIN BreachEndDeltas(s) :
                         DailyVal(daily_data', <<date, g>>, f)
                           = DailyVal(daily_data, <<date, g>>, f) + BreachEndDeltas(s)[f]
                  /\ DailyMovedOnly(DOMAIN BreachEndDeltas(s))
             ELSE /\ last'.result \in {"no_active_order", "wrong_state", "order_changed",
                                       "ignored"}
                  /\ TablesUnchanged
    ]_vars

\* a settlement above the order's amount has just taken an order from BREACH
\* to BREACH_END and is counted in the Daily rows
C30_Witness ==
  /\ last.cmd \in {"breach_end", "text"} /\ last.result = "breach_ended"
  /\ last.order # <<>> /\ last.order[1].state = "breach"
  /\ LET i == RowOf(last.order[1])
         date == get_daily_period_date(clock) IN
     /\ orders[i].state = "breach_end"
     /\ financial_data["liquid_funds"] - last.pre.liquid_funds > orders[i].amount
     /\ DailyVal(daily_data, <<date, orders[i].group_id>>, "breach_end_orders") = 1
     /\ DailyVal(daily_data, <<date, NULL>>, "breach_end_amount")
          = financial_data["liquid_funds"] - last.pre.liquid_funds

\* --------------------------------------------------------------------- C31
\* the ten digits an order id ends with
TenDigits(order_id) == SubSeq(order_id, Len(order_id) - 9, Len(order_id))

\* an order of the customer class and the ten digits that title t decodes to
MadeFrom(t, row) ==
  /\ row.customer = ParsedInfo[t][1].customer
  /\ TenDigits(row.order_id) = TenDigits(ParsedInfo[t][1].order_id)

\* C31: the title 'A' + D of a new customer and the title D of a returning
\* customer decode to different order ids, 'A' + D and D, so that the creation
\* of one of them never fails as a duplicate because the other was created.
C31_MarkedIdDistinct ==
  [][\A c \in Chats : \A t \in TitlesOf(c) : \A u \in {<<"A">> \o t, Tail(t)} \cap Titles :
       LET p == ParsedInfo[t] IN
       (/\ last'.cmd \in {"create", "new_chat_title"} /\ last'.chat = c
        /\ p # <<>> /\ ParsedInfo[u] # <<>>
        /\ get_order_by_chat_id(orders, c) = <<>>
        /\ \E i \in 1..Len(orders) : MadeFrom(u, orders[i])
        /\ ~ \E i \in 1..Len(orders) : MadeFrom(t, orders[i])
        /\ (DateBefore(p[1].date, ThresholdDate)
             \/ financial_data["liquid_funds"] >= p[1].amount)
        /\ (CreateOrder(c, t) \/ NewChatTitle(c, t)))
       => /\ p[1].order_id # ParsedInfo[u][1].order_id
          /\ last'.result \in {"created", "imported"}
          /\ Stored(c, t)
    ]_vars

\* the orders 'A' + D and D both exist, the second just created in another chat
C31_Witness ==
  /\ last.cmd \in {"create", "new_chat_title"} /\ last.result = "created"
  /\ Len(orders) = 2
  /\ orders[1].chat_id # orders[2].chat_id
  /\ \/ orders[1].order_id = <<"A">> \o orders[2].order_id
     \/ orders[2].order_id = <<"A">> \o orders[1].order_id

\* --------------------------------------------------------------------- C32
\* the number of the first n orders whose state is in states, and the sum of
\* their amounts
RECURSIVE CountIn(_, _)
CountIn(n, states) ==
  IF n = 0 THEN 0
  ELSE CountIn(n - 1, states) + (IF orders[n].state \in states THEN 1 ELSE 0)

RECURSIVE AmountIn(_, _)
AmountIn(n, states) ==
  IF n = 0 THEN 0
  ELSE AmountIn(n - 1, states) + (IF orders[n].state \in states THEN orders[n].amount ELSE 0)

\* C32: commands being handled one at a time, Global valid_orders is the
\* number of orders in NORMAL or OVERDUE and Global valid_amount is the sum of
\* the current amounts of those orders.
C32_ValidMatchesOrders ==
  /\ financial_data["valid_orders"] = CountIn(Len(orders), {"normal", "overdue"})
  /\ financial_data["valid_amount"] = AmountIn(Len(orders), {"normal", "overdue"})

\* of two orders one has ended and the other, still live, has just been reduced
C32_Witness ==
  /\ last.cmd = "amount" /\ last.result = "principal_reduced"
  /\ Len(orders) = 2
  /\ \E i \in 1..2 : orders[i].state = "end"
  /\ financial_data["valid_orders"] = 1
  /\ financial_data["valid_amount"] > 0

\* --------------------------------------------------------------------- C33
\* C33 as stated: commands being handled one at a time, Global breach_orders
\* is the number of orders in BREACH and Global breach_amount the sum of their
\* current amounts, also after an order has moved from BREACH to BREACH_END.
C33_BreachMatchesOrders ==
  /\ financial_data["breach_orders"] = CountIn(Len(orders), {"breach"})
  /\ financial_data["breach_amount"] = AmountIn(Len(orders), {"breach"})

\* C33 (amended): commands being handled one at a time, Global breach_orders
\* is the number of orders in BREACH or BREACH_END and Global breach_amount
\* the sum of their current amounts: a settlement leaves the order in the
\* breach counters.
C33_BreachMatchesBreachedOrders ==
  /\ financial_data["breach_orders"] = CountIn(Len(orders), {"breach", "breach_end"})
  /\ financial_data["breach_amount"] = AmountIn(Len(orders), {"breach", "breach_end"})

\* one order has been settled out of BREACH and another is in BREACH
C33_Witness ==
  /\ \E i \in 1..Len(orders) : orders[i].state = "breach_end"
  /\ \E i \in 1..Len(orders) : orders[i].state = "breach"
  /\ financial_data["breach_orders"] = 2
  /\ financial_data["breach_end_orders"] = 1

\* --------------------------------------------------------------------- C34
\* the principal an order was created with, as its order id encodes it
Principal(row) == ParsedInfo[row.order_id][1].amount

\* what the first n orders have paid back: the principal less what is left
\* of it, and for an order in END what was left as well
RECURSIVE PaidBack(_)
PaidBack(n) ==
  IF n = 0 THEN 0
  ELSE PaidBack(n - 1) + Principal(orders[n])
         - (IF orders[n].state = "end" THEN 0 ELSE orders[n].amount)

\* C34: an order created with principal A that reaches END without having
\* been in BREACH has added A to completed_amount, its principal reductions
\* and the amount credited at END together, the same A to liquid_funds, and 1
\* to completed_orders.
C34_CompletedIsPrincipal ==
  [][/\ financial_data'["completed_amount"] = PaidBack(Len(orders))'
     /\ financial_data'["completed_orders"] = CountIn(Len(orders), {"end"})'
     /\ (financial_data'["completed_amount"] # financial_data["completed_amount"]
          \/ financial_data'["completed_orders"] # financial_data["completed_orders"])
        => /\ financial_data'["liquid_funds"] - financial_data["liquid_funds"]
                = financial_data'["completed_amount"] - financial_data["completed_amount"]
           /\ last'.cmd \in {"amount", "end"}
    ]_vars

\* the only order, never in BREACH, has ended after a principal reduction:
\* completed_amount is its principal, of which the END credited a part
C34_Witness ==
  /\ last.cmd = "end" /\ last.result = "order_completed"
  /\ Len(orders) = 1 /\ orders[1].state = "end"
  /\ financial_data["breach_orders"] = 0
  /\ orders[1].amount < Principal(orders[1])
  /\ financial_data["completed_amount"] = Principal(orders[1])
  /\ financial_data["completed_orders"] = 1

\* --------------------------------------------------------------------- C35
\* C35: an interest message is recorded only when its amount is above zero,
\* in a chat with an active order and in a chat without one: Global interest
\* never decreases and an interest message never lowers Global liquid_funds.
C35_InterestPositive ==
  [][/\ financial_data'["interest"] >= financial_data["interest"]
     /\ \A c \in Chats : \A text \in QuickTexts :
          (last'.cmd = "amount" /\ last'.chat = c /\ AmountOperation(c, text))
          => /\ financial_data'["liquid_funds"] >= financial_data["liquid_funds"]
             /\ (last'.result \in {"interest_received", "interest_success"})
                  => financial_data'["interest"] > financial_data["interest"]
    ]_vars

\* --------------------------------------------------------------------- C36
\* C36: a title change moves the state of the chat's active order only when
\* the new title decodes as an order title; a rename to a title that is not
\* an order code leaves the orders and the ledgers as they were, an order in
\* BREACH in particular staying in BREACH.
C36_RenameNeedsOrderCode ==
  [][\A c \in Chats : \A t \in TitlesOf(c) :
       (/\ last'.cmd = "new_chat_title" /\ last'.chat = c
        /\ ParsedInfo[t] = <<>>
        /\ get_order_by_chat_id(orders, c) # <<>>
        /\ NewChatTitle(c, t))
       => TablesUnchanged
    ]_vars

\* --------------------------------------------------------------------- C37
\* C37: commands being handled one at a time, the breach_end effect is applied
\* at most once per order. Text from a user who is not waiting changes
\* nothing; while the user waits for the amount of chat c, 'cancel' clears the
\* waiting state and changes nothing, a text that is no number or a number
\* not above zero leaves the waiting state, the orders and the ledgers as
\* they were, and a positive amount clears the waiting state and is applied
\* only if the order of chat c is still in BREACH.
C37_BreachEndOnce ==
  [][/\ financial_data'["breach_end_orders"] = CountIn(Len(orders), {"breach_end"})'
     /\ \A u \in Users : \A chat_type \in ChatTypes : \A text \in PlainTexts :
          (last'.cmd = "text" /\ TextInput(u, chat_type, text))
          => LET c == user_data[u].breach_end_chat_id
                 order == get_order_by_chat_id(orders, c)
                 amount == Float(text)
             IN IF user_data[u].state # "WAITING_BREACH_END_AMOUNT"
                THEN TablesUnchanged /\ user_data' = user_data
                ELSE IF text = <<"c", "a", "n", "c", "e", "l">>
                THEN TablesUnchanged /\ user_data'[u].state = "None"
                ELSE IF amount = <<>> \/ amount[1] <= 0
                THEN TablesUnchanged /\ user_data' = user_data
                ELSE /\ user_data'[u].state = "None"
                     /\ IF order # <<>> /\ order[1].state = "breach"
                        THEN /\ last'.result = "breach_ended"
                             /\ get_order_by_chat_id(orders', c) = <<>>
                             /\ financial_data'["breach_end_orders"]
                                  = financial_data["breach_end_orders"] + 1
                        ELSE TablesUnchanged
    ]_vars

\* the amount typed after the prompt has settled the order and the same
\* user's next text has been ignored
C37_Witness ==
  /\ last.cmd = "text" /\ last.result = "ignored"
  /\ \A u \in Users : user_data[u].state = "None" /\ user_data[u].breach_end_chat_id # 0
  /\ financial_data["breach_end_orders"] = 1
  /\ \E i \in 1..Len(orders) :
       orders[i].state = "breach_end"
       /\ \A u \in Users : orders[i].chat_id = user_data[u].breach_end_chat_id

\* --------------------------------------------------------------------- C38
\* the fields of an order row that name the order
IdentityOf(row) ==
  [order_id |-> row.order_id, chat_id |-> row.chat_id, group_id |-> row.group_id,
   weekday_group |-> row.weekday_group, customer |-> row.customer, date |-> row.date]

\* C38: no state transition changes an order's order_id, chat_id, group_id,
\* weekday_group, customer class or amount, no principal reduction changes an
\* order's state or any of the identity fields, and every order row that was
\* created is still in the table: nothing deletes an order.
C38_OrderRowsKept ==
  [][/\ Len(orders') >= Len(orders)
     /\ \A i \in 1..Len(orders) :
          /\ IdentityOf(orders'[i]) = IdentityOf(orders[i])
          /\ orders'[i].state # orders[i].state => orders'[i].amount = orders[i].amount
          /\ orders'[i].amount # orders[i].amount
               => /\ orders'[i].state = orders[i].state
                  /\ last'.result = "principal_reduced"
     /\ \A c \in Chats : delete_order_by_chat_id(orders', c) = orders'
    ]_vars

\* an order that was reduced and then ended is still in the table, with the
\* amount it ended with, after another order has been created
C38_Witness ==
  /\ last.cmd \in {"create", "new_chat_title"} /\ last.result \in {"created", "imported"}
  /\ Len(orders) = 2
  /\ orders[1].state = "end"
  /\ orders[1].amount > 0 /\ orders[1].amount < Principal(orders[1])

====
